---- MODULE Spec2Model ----
(***************************************************************************)
(* Verification model of the apfs metadata accessors and tree checker.     *)
(*                                                                         *)
(*   struct-funcs.c   apfs_get_W / apfs_set_W and their token variants     *)
(*   tree-checker.c   check_leaf, apfs_check_node and the item validators  *)
(*                                                                         *)
(* Several specifications share the variables of this module; each one     *)
(* drives one part of the program and leaves the other parts idle.         *)
(***************************************************************************)
EXTENDS Integers, Sequences, FiniteSets, TLC

VARIABLES
    pages,      \* extent buffer pages written through apfs_set_W / read by apfs_get_W
    tpages,     \* the same buffer driven through the token variants
    token,      \* struct apfs_map_token: cached page (kaddr) and its byte offset
    ret,        \* value returned by the last apfs_get_W
    tret,       \* value returned by the last apfs_get_token_W
    lastop,     \* the last accessor call: kind, offset, size, value, fast-path hit
    nops,       \* number of accessor calls made so far
    eb,         \* the tree block under check (header fields, items or key pointers)
    pc,         \* position of the checker
    result,     \* value returned by the checker: 0 or -EUCLEAN
    slot,       \* loop variable of check_leaf / apfs_check_node
    prev_key,   \* check_leaf: key of the previous slot
    check_item_data, \* check_leaf: full (TRUE) or relaxed (FALSE) mode
    accesses,   \* byte ranges of the block read by the item validators
    diag,       \* diagnostics emitted, in order
    bp,         \* struct apfs_buf: error, io_errors, io_remaining, io_wait
    bios,       \* the bios submitted for bp, each with the position of its end_io
    submit,     \* the caller of apfs_buf_submit: position, arguments and locals
    root,       \* struct apfs_root: the fields apfs_defrag_leaves reads and writes
    defrag      \* the call of apfs_defrag_leaves: position, key, ret

codecVars == <<pages, tpages, token, ret, tret, lastop, nops>>

checkerVars == <<eb, pc, result, slot, prev_key, check_item_data, accesses, diag>>

bufVars == <<bp, bios, submit>>

defragVars == <<root, defrag>>

vars == <<pages, tpages, token, ret, tret, lastop, nops,
          eb, pc, result, slot, prev_key, check_item_data, accesses, diag,
          bp, bios, submit, root, defrag>>

(***************************************************************************)
(* Bounds of the accessor model.  A page holds PAGE_SIZE bytes, a byte is  *)
(* a digit in base ByteRadix, and the buffer is one page plus TailLen      *)
(* bytes of a second page, so that values can straddle the page boundary.  *)
(***************************************************************************)
PAGE_SIZE == 8
TailLen == 2
ByteRadix == 2
MaxOps == 2

eb_len == PAGE_SIZE + TailLen

\* num_extent_pages: the pages that back eb_len bytes
NumPages == (eb_len + PAGE_SIZE - 1) \div PAGE_SIZE

\* sizeof(u8), sizeof(u16), sizeof(u32), sizeof(u64)
Sizes == {1, 2, 4, 8}

RECURSIVE Pow(_, _)
Pow(b, e) == IF e = 0 THEN 1 ELSE b * Pow(b, e - 1)

\* A byte outside the page that kaddr maps: not part of the buffer.
Poison == ByteRadix

----------------------------------------------------------------------------
(* Page resolution (extent_io.h helpers used by the accessors).            *)

get_eb_page_index(member_offset) == member_offset \div PAGE_SIZE

get_eb_offset_in_page(member_offset) == member_offset % PAGE_SIZE

\* The byte at kaddr + i of the page with index idx.
MemByte(pg, idx, i) ==
    IF idx \in DOMAIN pg /\ i \in 0 .. (PAGE_SIZE - 1) THEN pg[idx][i] ELSE Poison

\* A store that also clears the page behind the bytes it writes.
PageStore_clears_rest(pg, idx, at, src, from, n) ==
    [pg EXCEPT ![idx] = [i \in 0 .. (PAGE_SIZE - 1) |->
        IF i >= at /\ i < at + n THEN src[from + (i - at)]
        ELSE IF i >= at + n THEN 0 ELSE pg[idx][i]]]

\* memcpy(kaddr + at, src, n): bytes src[from .. from+n-1] land at at .. at+n-1.
PageStore(pg, idx, at, src, from, n) ==
    [pg EXCEPT ![idx] = [i \in 0 .. (PAGE_SIZE - 1) |->
        IF i >= at /\ i < at + n THEN src[from + (i - at)] ELSE pg[idx][i]]]

\* get_unaligned_le##bits: little-endian decoding of size bytes.
RECURSIVE get_unaligned_le(_, _)
get_unaligned_le(lebytes, size) ==
    IF size = 0 THEN 0
    ELSE lebytes[0] + ByteRadix *
         get_unaligned_le([i \in 0 .. (size - 2) |-> lebytes[i + 1]], size - 1)

\* put_unaligned_le##bits: little-endian encoding of val in size bytes.
put_unaligned_le(val, size) ==
    [i \in 0 .. (size - 1) |-> (val \div Pow(ByteRadix, i)) % ByteRadix]

\* ASSERT(check_setget_bounds(eb, ptr, off, size))
check_setget_bounds(len, member_offset, size) ==
    /\ ~(member_offset > len)
    /\ ~(member_offset + size > len)

----------------------------------------------------------------------------
(* apfs_get_##bits                                                         *)
apfs_get(pg, member_offset, size) ==
    LET oip == get_eb_offset_in_page(member_offset)
        idx == get_eb_page_index(member_offset)
        part == PAGE_SIZE - oip
    IN  IF oip + size <= PAGE_SIZE
        THEN get_unaligned_le([i \in 0 .. (size - 1) |-> MemByte(pg, idx, oip + i)], size)
        ELSE get_unaligned_le(
                 [i \in 0 .. (size - 1) |->
                     IF i < part THEN MemByte(pg, idx, oip + i)
                     ELSE MemByte(pg, idx + 1, i - part)], size)

\* A set that stores the head of lebytes again in the second page.
apfs_set_tail_from_head(pg, member_offset, size, val) ==
    LET oip == get_eb_offset_in_page(member_offset)
        idx == get_eb_page_index(member_offset)
        part == PAGE_SIZE - oip
        lebytes == put_unaligned_le(val, size)
    IN  IF oip + size <= PAGE_SIZE
        THEN PageStore(pg, idx, oip, lebytes, 0, size)
        ELSE PageStore(PageStore(pg, idx, oip, lebytes, 0, part),
                       idx + 1, 0, lebytes, 0, size - part)

(* apfs_set_##bits                                                         *)
apfs_set(pg, member_offset, size, val) ==
    LET oip == get_eb_offset_in_page(member_offset)
        idx == get_eb_page_index(member_offset)
        part == PAGE_SIZE - oip
        lebytes == put_unaligned_le(val, size)
    IN  IF oip + size <= PAGE_SIZE
        THEN PageStore(pg, idx, oip, lebytes, 0, size)
        ELSE PageStore(PageStore(pg, idx, oip, lebytes, 0, part),
                       idx + 1, 0, lebytes, part, size - part)

\* The token's fast path: the access lies inside the page the token caches.
TokenHit(tok, member_offset, size) ==
    /\ tok.offset <= member_offset
    /\ member_offset + size <= tok.offset + PAGE_SIZE

\* A token get that moves kaddr to the next page but leaves the offset behind.
apfs_get_token_stale_offset(tok, pg, member_offset, size) ==
    LET oip == get_eb_offset_in_page(member_offset)
        idx == get_eb_page_index(member_offset)
        part == PAGE_SIZE - oip
    IN  IF TokenHit(tok, member_offset, size)
        THEN [val |-> get_unaligned_le(
                          [i \in 0 .. (size - 1) |-> MemByte(pg, tok.kaddr, oip + i)], size),
              token |-> tok, hit |-> TRUE]
        ELSE IF oip + size <= PAGE_SIZE
        THEN [val |-> get_unaligned_le(
                          [i \in 0 .. (size - 1) |-> MemByte(pg, idx, oip + i)], size),
              token |-> [kaddr |-> idx, offset |-> idx * PAGE_SIZE], hit |-> FALSE]
        ELSE [val |-> get_unaligned_le(
                          [i \in 0 .. (size - 1) |->
                              IF i < part THEN MemByte(pg, idx, oip + i)
                              ELSE MemByte(pg, idx + 1, i - part)], size),
              token |-> [kaddr |-> idx + 1, offset |-> idx * PAGE_SIZE],
              hit |-> FALSE]

(* apfs_get_token_##bits: the value read and the token it leaves.          *)
apfs_get_token(tok, pg, member_offset, size) ==
    LET oip == get_eb_offset_in_page(member_offset)
        idx == get_eb_page_index(member_offset)
        part == PAGE_SIZE - oip
    IN  IF TokenHit(tok, member_offset, size)
        THEN [val |-> get_unaligned_le(
                          [i \in 0 .. (size - 1) |-> MemByte(pg, tok.kaddr, oip + i)], size),
              token |-> tok, hit |-> TRUE]
        ELSE IF oip + size <= PAGE_SIZE
        THEN [val |-> get_unaligned_le(
                          [i \in 0 .. (size - 1) |-> MemByte(pg, idx, oip + i)], size),
              token |-> [kaddr |-> idx, offset |-> idx * PAGE_SIZE], hit |-> FALSE]
        ELSE [val |-> get_unaligned_le(
                          [i \in 0 .. (size - 1) |->
                              IF i < part THEN MemByte(pg, idx, oip + i)
                              ELSE MemByte(pg, idx + 1, i - part)], size),
              token |-> [kaddr |-> idx + 1, offset |-> (idx + 1) * PAGE_SIZE],
              hit |-> FALSE]

(* apfs_set_token_##bits: the pages written and the token it leaves.       *)
apfs_set_token(tok, pg, member_offset, size, val) ==
    LET oip == get_eb_offset_in_page(member_offset)
        idx == get_eb_page_index(member_offset)
        part == PAGE_SIZE - oip
        lebytes == put_unaligned_le(val, size)
    IN  IF TokenHit(tok, member_offset, size)
        THEN [pages |-> PageStore(pg, tok.kaddr, oip, lebytes, 0, size),
              token |-> tok, hit |-> TRUE]
        ELSE IF oip + size <= PAGE_SIZE
        THEN [pages |-> PageStore(pg, idx, oip, lebytes, 0, size),
              token |-> [kaddr |-> idx, offset |-> idx * PAGE_SIZE], hit |-> FALSE]
        ELSE [pages |-> PageStore(PageStore(pg, idx, oip, lebytes, 0, part),
                                  idx + 1, 0, lebytes, part, size - part),
              token |-> [kaddr |-> idx + 1, offset |-> (idx + 1) * PAGE_SIZE],
              hit |-> FALSE]

----------------------------------------------------------------------------
(* The accessor state machine: one buffer driven through the plain         *)
(* accessors and a copy of it driven through the token accessors.          *)

\* A value whose neighbouring bytes differ.
Mixed(size) == get_unaligned_le([i \in 0 .. (size - 1) |-> (i + 1) % ByteRadix], size)

\* Values written in a sequence of calls.
SetValues(size) == {Mixed(size)}

\* Every value representable in size bytes.
AllValues(size) == 0 .. (Pow(ByteRadix, size) - 1)

\* Buffer contents before the calls: zero-filled, all ones, or a pattern
\* that differs from byte to byte and from page to page.
InitialPages ==
    { [p \in 0 .. (NumPages - 1) |-> [i \in 0 .. (PAGE_SIZE - 1) |-> 0]],
      [p \in 0 .. (NumPages - 1) |-> [i \in 0 .. (PAGE_SIZE - 1) |-> ByteRadix - 1]],
      [p \in 0 .. (NumPages - 1) |-> [i \in 0 .. (PAGE_SIZE - 1) |-> (p + i) % ByteRadix]] }

\* apfs_init_map_token: the token starts on the first page.
apfs_init_map_token == [kaddr |-> 0, offset |-> 0]

NoOp == [kind |-> "none", off |-> 0, size |-> 1, val |-> 0, hit |-> FALSE]

\* The accessors are not in use.
CodecIdle ==
    /\ pages = <<>>
    /\ tpages = <<>>
    /\ token = apfs_init_map_token
    /\ ret = 0
    /\ tret = 0
    /\ lastop = NoOp
    /\ nops = 0

\* No block is being checked.
CheckerIdle ==
    /\ eb = <<>>
    /\ pc = "idle"
    /\ result = 0
    /\ slot = 0
    /\ prev_key = <<>>
    /\ check_item_data = FALSE
    /\ accesses = {}
    /\ diag = <<>>

\* No buffer is under I/O.
BufIdle ==
    /\ bp = <<>>
    /\ bios = <<>>
    /\ submit = <<>>

\* No tree is under defrag.
DefragIdle ==
    /\ root = <<>>
    /\ defrag = <<>>

InitCodec ==
    /\ CheckerIdle
    /\ BufIdle
    /\ DefragIdle
    /\ pages \in InitialPages
    /\ tpages = pages
    /\ token = apfs_init_map_token
    /\ ret = 0
    /\ tret = 0
    /\ lastop = NoOp
    /\ nops = 0

Get(off, size) ==
    /\ check_setget_bounds(eb_len, off, size)
    /\ LET r == apfs_get_token(token, tpages, off, size)
       IN  /\ ret' = apfs_get(pages, off, size)
           /\ tret' = r.val
           /\ token' = r.token
           /\ lastop' = [kind |-> "get", off |-> off, size |-> size,
                         val |-> r.val, hit |-> r.hit]
    /\ nops' = nops + 1
    /\ UNCHANGED <<pages, tpages>>
    /\ UNCHANGED <<checkerVars, bufVars, defragVars>>

Set(off, size, val) ==
    /\ check_setget_bounds(eb_len, off, size)
    /\ LET r == apfs_set_token(token, tpages, off, size, val)
       IN  /\ pages' = apfs_set(pages, off, size, val)
           /\ tpages' = r.pages
           /\ token' = r.token
           /\ lastop' = [kind |-> "set", off |-> off, size |-> size,
                         val |-> val, hit |-> r.hit]
    /\ nops' = nops + 1
    /\ UNCHANGED <<ret, tret>>
    /\ UNCHANGED <<checkerVars, bufVars, defragVars>>

DoGet ==
    /\ nops < MaxOps
    /\ \E size \in Sizes : \E off \in 0 .. eb_len : Get(off, size)

DoSet ==
    /\ nops < MaxOps
    /\ \E size \in Sizes : \E off \in 0 .. eb_len :
           \E val \in SetValues(size) : Set(off, size, val)

NextCodec == DoGet \/ DoSet

SpecCodec == InitCodec /\ [][NextCodec]_vars

\* One apfs_set_W followed at once by apfs_get_W at the same offset, on a
\* fresh buffer, for every representable value.
SetThenGet(off, size, val) ==
    /\ check_setget_bounds(eb_len, off, size)
    /\ pages' = apfs_set(pages, off, size, val)
    /\ ret' = apfs_get(pages', off, size)
    /\ lastop' = [kind |-> "set", off |-> off, size |-> size, val |-> val, hit |-> FALSE]
    /\ UNCHANGED <<tpages, token, tret, nops>>
    /\ UNCHANGED <<checkerVars, bufVars, defragVars>>

RoundTrip ==
    /\ lastop.kind = "none"
    /\ \E size \in Sizes : \E off \in 0 .. eb_len :
           \E val \in AllValues(size) : SetThenGet(off, size, val)

SpecRoundTrip == InitCodec /\ [][RoundTrip]_vars

----------------------------------------------------------------------------
(***************************************************************************)
(* Tree checker (tree-checker.c).                                          *)
(*                                                                         *)
(* Numbers.  Item offsets and sizes are u32 and block positions are        *)
(* unsigned long; both are kept as two limbs, hi * 2^16 + lo, so that u32  *)
(* arithmetic wraps at 2^32 exactly as in the code.  u64 values near 2^64  *)
(* are written as negative numbers, the way the headers write them         *)
(* (-9ULL).                                                                *)
(***************************************************************************)
Limb == 256 * 256

\* The number n as limbs.
W(n) == [hi |-> n \div Limb, lo |-> n % Limb]

WAdd(a, b) == [hi |-> a.hi + b.hi + ((a.lo + b.lo) \div Limb),
               lo |-> (a.lo + b.lo) % Limb]

WLt(a, b) == a.hi < b.hi \/ (a.hi = b.hi /\ a.lo < b.lo)

WLe(a, b) == ~WLt(b, a)

\* Truncation to u32.
U32(w) == [hi |-> w.hi % Limb, lo |-> w.lo]

\* u32 addition and subtraction, modulo 2^32.
U32Add(a, b) == U32(WAdd(a, b))

U32Sub(a, b) ==
    U32(WAdd(a, [hi |-> (Limb - 1 - b.hi) + (IF b.lo = 0 THEN 1 ELSE 0),
                 lo |-> (Limb - b.lo) % Limb]))

\* Unsigned comparison of u64 values.
U64Lt(a, b) == IF (a < 0) = (b < 0) THEN a < b ELSE b < 0

\* IS_ALIGNED(x, a)
IS_ALIGNED(x, a) == x % a = 0

EUCLEAN == 117

\* ctree.h: tree depth, well-known tree ids, structure sizes.
APFS_MAX_LEVEL == 8
APFS_ROOT_TREE_OBJECTID == 1
APFS_EXTENT_TREE_OBJECTID == 2
APFS_CHUNK_TREE_OBJECTID == 3
APFS_DEV_TREE_OBJECTID == 4
APFS_FS_TREE_OBJECTID == 5
APFS_DATA_RELOC_TREE_OBJECTID == -9
APFS_FIRST_FREE_OBJECTID == 256
SizeofHeader == 101
SizeofItem == 25

\* fs_info->nodesize, fs_info->sectorsize
NodeSize == 16384
SectorSize == 4096

\* APFS_LEAF_DATA_SIZE(fs_info)
APFS_LEAF_DATA_SIZE == NodeSize - SizeofHeader

\* Bounds on the blocks checked.
MaxItems == 2
MaxPtrs == 3

Key(objectid, type, offset) == [objectid |-> objectid, type |-> type, offset |-> offset]

\* struct apfs_key prev_key = {}
ZeroKey == Key(0, 0, 0)

\* apfs_comp_cpu_keys: lexicographic on (objectid, type, offset); -1, 0 or 1.
apfs_comp_cpu_keys(k1, k2) ==
    IF U64Lt(k2.objectid, k1.objectid) THEN 1
    ELSE IF U64Lt(k1.objectid, k2.objectid) THEN -1
    ELSE IF k1.type > k2.type THEN 1
    ELSE IF k1.type < k2.type THEN -1
    ELSE IF U64Lt(k2.offset, k1.offset) THEN 1
    ELSE IF U64Lt(k1.offset, k2.offset) THEN -1
    ELSE 0

\* generic_err(eb, slot, ...) and the other reporters: one message, tied to a slot.
Msg(fn, at) == [fn |-> fn, slot |-> at]

----------------------------------------------------------------------------
(* Blocks handed to the entry points.                                      *)

\* Keys that differ in one component each, the later components decreasing.
BlockKeys == {Key(256, 1, 5), Key(256, 1, 6), Key(256, 12, 0), Key(257, 1, 0)}

Owners == {0, APFS_ROOT_TREE_OBJECTID, APFS_EXTENT_TREE_OBJECTID,
           APFS_CHUNK_TREE_OBJECTID, APFS_DEV_TREE_OBJECTID, APFS_FS_TREE_OBJECTID,
           APFS_DATA_RELOC_TREE_OBJECTID, APFS_FIRST_FREE_OBJECTID}

NoPayload == [kind |-> "none"]

\* Items holding PayloadLen bytes each, packed back to back from the end of
\* the data area.
PayloadLen == 32

PackedItems(keys) ==
    [i \in 1 .. Len(keys) |->
        [key |-> keys[i],
         offset |-> W(APFS_LEAF_DATA_SIZE - i * PayloadLen),
         size |-> W(PayloadLen),
         p |-> NoPayload]]

KeySeqs(n) == UNION {[1 .. m -> BlockKeys] : m \in 0 .. n}

LeafInputs ==
    {[kind |-> "leaf", level |-> lv, nritems |-> Len(ks), owner |-> ow, reloc |-> rl,
      items |-> PackedItems(ks), ptrs |-> <<>>] :
        lv \in {0, 1}, ow \in Owners, rl \in BOOLEAN, ks \in KeySeqs(MaxItems)}

\* Child addresses: null, aligned, unaligned.
BlockPtrs == {0, SectorSize, SectorSize + 1}

PtrSeqs(n) ==
    UNION {[1 .. m -> [key : BlockKeys, blockptr : BlockPtrs]] : m \in 0 .. n}

NodeInputs ==
    {[kind |-> "node", level |-> lv, nritems |-> Len(ps), owner |-> APFS_FS_TREE_OBJECTID,
      reloc |-> FALSE, items |-> <<>>, ptrs |-> ps] :
        lv \in {0, 1, APFS_MAX_LEVEL}, ps \in PtrSeqs(MaxPtrs)}

----------------------------------------------------------------------------
(* The entry points as compiled: check_leaf and apfs_check_node return 0   *)
(* before their first check.                                               *)

check_leaf_with_level_check(leaf, item_data) == IF leaf.level # 0 THEN -EUCLEAN ELSE 0

\* check_leaf: "return 0;" ahead of every check.
check_leaf(leaf, item_data) == 0

\* apfs_check_node: "return 0;" ahead of every check.
check_node(node) == 0

InitCalls ==
    /\ CodecIdle
    /\ BufIdle
    /\ DefragIdle
    /\ eb \in LeafInputs \cup NodeInputs
    /\ pc = "call"
    /\ result = 0
    /\ slot = 0
    /\ prev_key = ZeroKey
    /\ check_item_data = FALSE
    /\ accesses = {}
    /\ diag = <<>>

apfs_check_leaf_full ==
    /\ pc = "call"
    /\ eb.kind = "leaf"
    /\ check_item_data' = TRUE
    /\ result' = check_leaf(eb, TRUE)
    /\ pc' = "done"
    /\ UNCHANGED <<eb, slot, prev_key, accesses, diag>>
    /\ UNCHANGED <<codecVars, bufVars, defragVars>>

apfs_check_leaf_relaxed ==
    /\ pc = "call"
    /\ eb.kind = "leaf"
    /\ check_item_data' = FALSE
    /\ result' = check_leaf(eb, FALSE)
    /\ pc' = "done"
    /\ UNCHANGED <<eb, slot, prev_key, accesses, diag>>
    /\ UNCHANGED <<codecVars, bufVars, defragVars>>

apfs_check_node ==
    /\ pc = "call"
    /\ eb.kind = "node"
    /\ result' = check_node(eb)
    /\ pc' = "done"
    /\ UNCHANGED <<eb, slot, prev_key, check_item_data, accesses, diag>>
    /\ UNCHANGED <<codecVars, bufVars, defragVars>>

Init == InitCalls

Next == apfs_check_leaf_full \/ apfs_check_leaf_relaxed \/ apfs_check_node

Spec == Init /\ [][Next]_vars

----------------------------------------------------------------------------
(* The checks of apfs_check_node that follow its early return, one loop    *)
(* iteration per step.                                                     *)

InitNodeWalk ==
    /\ CodecIdle
    /\ BufIdle
    /\ DefragIdle
    /\ eb \in NodeInputs
    /\ pc = "check_node"
    /\ result = 0
    /\ slot = 0
    /\ prev_key = ZeroKey
    /\ check_item_data = FALSE
    /\ accesses = {}
    /\ diag = <<>>

\* Level and item count.
NodeHeader ==
    /\ pc = "check_node"
    /\ IF eb.level <= 0 \/ eb.level >= APFS_MAX_LEVEL
       THEN /\ diag' = Append(diag, Msg("generic_err", 0))
            /\ result' = -EUCLEAN
            /\ pc' = "done"
       ELSE IF eb.nritems = 0
       THEN /\ diag' = Append(diag, Msg("apfs_crit", -1))
            /\ result' = -EUCLEAN
            /\ pc' = "done"
       ELSE /\ pc' = "node_slots"
            /\ UNCHANGED <<diag, result>>
    /\ UNCHANGED <<eb, slot, prev_key, check_item_data, accesses>>
    /\ UNCHANGED <<codecVars, bufVars, defragVars>>

\* One iteration of "for (slot = 0; slot < nr - 1; slot++)".
NodeSlot ==
    /\ pc = "node_slots"
    /\ slot < eb.nritems - 1
    /\ LET bytenr == eb.ptrs[slot + 1].blockptr
           key == eb.ptrs[slot + 1].key
           next_key == eb.ptrs[slot + 2].key
       IN  IF bytenr = 0 \/ ~IS_ALIGNED(bytenr, SectorSize)
              \/ apfs_comp_cpu_keys(key, next_key) >= 0
           THEN /\ diag' = Append(diag, Msg("generic_err", slot))
                /\ result' = -EUCLEAN
                /\ pc' = "done"
                /\ UNCHANGED slot
           ELSE /\ slot' = slot + 1
                /\ UNCHANGED <<diag, result, pc>>
    /\ UNCHANGED <<eb, prev_key, check_item_data, accesses>>
    /\ UNCHANGED <<codecVars, bufVars, defragVars>>

\* The loop has ended: "out: return ret;" with ret still 0.
NodeReturn ==
    /\ pc = "node_slots"
    /\ ~(slot < eb.nritems - 1)
    /\ result' = 0
    /\ pc' = "done"
    /\ UNCHANGED <<eb, slot, prev_key, check_item_data, accesses, diag>>
    /\ UNCHANGED <<codecVars, bufVars, defragVars>>

NextNodeWalk == NodeHeader \/ NodeSlot \/ NodeReturn

SpecNodeWalk == InitNodeWalk /\ [][NextNodeWalk]_vars

----------------------------------------------------------------------------
(* Item validators.  A validator returns its result, the byte ranges of    *)
(* the block it read (acc) and the diagnostics it emitted (diag).          *)

\* ctree.h: key types and reserved object ids used by the validators.
APFS_INODE_ITEM_KEY == 1
APFS_INODE_REF_KEY == 12
APFS_XATTR_ITEM_KEY == 24
APFS_EXTENT_DATA_KEY == 108
APFS_DIR_ITEM_KEY == 84
APFS_DIR_INDEX_KEY == 96
APFS_ROOT_ITEM_KEY == 132
APFS_DEV_ITEM_KEY == 216
APFS_DEV_ITEMS_OBJECTID == 1
APFS_ROOT_TREE_DIR_OBJECTID == 6
APFS_FREE_INO_OBJECTID == -12
APFS_LAST_FREE_OBJECTID == -256
APFS_TREE_RELOC_OBJECTID == -8

\* Directory entry types and name limits.
APFS_FT_XATTR == 8
APFS_FT_MAX == 9
APFS_NAME_LEN == 255
XATTR_NAME_MAX == 255

\* apfs_super_generation(fs_info->super_copy)
SuperGeneration == 10

\* On-disk structures: offset (at) and width (w) of the fields read.
apfs_dev_item ==
    [devid |-> [at |-> 0, w |-> 8], total_bytes |-> [at |-> 8, w |-> 8],
     bytes_used |-> [at |-> 16, w |-> 8]]

apfs_inode_item ==
    [generation |-> [at |-> 0, w |-> 8], transid |-> [at |-> 8, w |-> 8],
     nlink |-> [at |-> 40, w |-> 4], mode |-> [at |-> 52, w |-> 4],
     flags |-> [at |-> 64, w |-> 8]]

apfs_dir_item ==
    [location |-> [at |-> 0, w |-> 17], data_len |-> [at |-> 25, w |-> 2],
     name_len |-> [at |-> 27, w |-> 2], type |-> [at |-> 29, w |-> 1]]

apfs_file_extent_item ==
    [ram_bytes |-> [at |-> 8, w |-> 8], compression |-> [at |-> 16, w |-> 1],
     encryption |-> [at |-> 17, w |-> 1], type |-> [at |-> 20, w |-> 1],
     disk_bytenr |-> [at |-> 21, w |-> 8], disk_num_bytes |-> [at |-> 29, w |-> 8],
     offset |-> [at |-> 37, w |-> 8], num_bytes |-> [at |-> 45, w |-> 8]]

\* offsetof(struct apfs_file_extent_item, disk_bytenr) and the structure's size
APFS_FILE_EXTENT_INLINE_DATA_START == 21
SizeofFileExtentItem == 53

\* File extent types and the number of types and of compression types.
APFS_FILE_EXTENT_INLINE == 0
APFS_NR_FILE_EXTENT_TYPES == 3
APFS_COMPRESS_NONE == 0
APFS_NR_COMPRESS_TYPES == 4

\* sizeof(struct apfs_dir_item)
SizeofDirItem == 30

apfs_inode_ref == [index |-> [at |-> 0, w |-> 8], name_len |-> [at |-> 8, w |-> 2]]

\* sizeof(struct apfs_inode_ref) and sizeof(struct apfs_inode_ref *)
SizeofInodeRef == 10
SizeofPointer == 8

\* stat.h: the file type field of a mode and the mode bits the checker accepts.
S_IFMT == 61440
S_IFIFO == 4096
S_IFDIR == 16384
S_IFBLK == 24576
S_IFLNK == 40960
S_IFSOCK == 49152
ValidModeMask == 65535

\* APFS_INODE_FLAG_MASK, as the first flag value outside the mask
InodeFlagLimit == 256

\* apfs_item_ptr_offset(leaf, slot): APFS_LEAF_DATA_OFFSET + item offset
apfs_item_ptr_offset(leaf, at) == WAdd(W(SizeofHeader), leaf.items[at + 1].offset)

\* apfs_item_size_nr(leaf, slot)
apfs_item_size_nr(leaf, at) == leaf.items[at + 1].size

\* The bytes read by an accessor for field f of the structure at ptr.
Field(ptr, f) == [lo |-> WAdd(ptr, W(f.at)), hi |-> WAdd(ptr, W(f.at + f.w))]

Verdict(r, acc, msgs) == [ret |-> r, acc |-> acc, prev |-> {}, diag |-> msgs]

\* A verdict that also read the ranges reads of the item one slot before.
WithPrev(v, reads) == [v EXCEPT !.prev = reads]

\* u64 arithmetic on two's-complement representatives: the sum wraps, and
\* it carries out of 64 bits when both are "negative" or the signs differ
\* and the sum is not.
U64Carry(a, b) == (a < 0 /\ b < 0) \/ ((a < 0) # (b < 0) /\ a + b >= 0)

\* ALIGN(x, a) for a power of two a, in 64 bits
ALIGN(x, a) == (x + a - 1) - ((x + a - 1) % a)

\* is_fstree(rootid)
is_fstree(rootid) == rootid = APFS_FS_TREE_OBJECTID \/ rootid >= APFS_FIRST_FREE_OBJECTID

\* check_prev_ino applied to the leaves of every tree.
check_prev_ino_any_tree(leaf, key, at, prev) ==
    IF at = 0 THEN TRUE
    ELSE key.objectid = prev.objectid

\* check_prev_ino: TRUE when the check passes or does not apply.
check_prev_ino(leaf, key, at, prev) ==
    IF at = 0 THEN TRUE
    ELSE IF ~is_fstree(leaf.owner) THEN TRUE
    ELSE key.objectid = prev.objectid

\* check_dev_item
check_dev_item(leaf, key, at) ==
    LET ptr == apfs_item_ptr_offset(leaf, at)
        d == leaf.items[at + 1].p
        rd_id == {Field(ptr, apfs_dev_item.devid)}
        rd_all == rd_id \cup {Field(ptr, apfs_dev_item.bytes_used),
                              Field(ptr, apfs_dev_item.total_bytes)}
    IN  IF key.objectid # APFS_DEV_ITEMS_OBJECTID
        THEN Verdict(-EUCLEAN, {}, <<Msg("dev_item_err", at)>>)
        ELSE IF d.devid # key.offset
        THEN Verdict(-EUCLEAN, rd_id, <<Msg("dev_item_err", at)>>)
        ELSE IF U64Lt(d.total_bytes, d.bytes_used)
        THEN Verdict(-EUCLEAN, rd_all, <<Msg("dev_item_err", at)>>)
        ELSE Verdict(0, rd_all, <<>>)

\* check_inode_key without the check of the offset.
check_inode_key_any_offset(leaf, key, at) ==
    LET item_key == leaf.items[at + 1].key
        is_inode_item == item_key.type = APFS_INODE_ITEM_KEY
    IN  IF item_key.type = APFS_XATTR_ITEM_KEY
        THEN IF key.objectid # 0 \/ key.type # 0
             THEN Verdict(-EUCLEAN, {}, <<>>)
             ELSE Verdict(0, {}, <<>>)
        ELSE IF (U64Lt(key.objectid, APFS_FIRST_FREE_OBJECTID)
                   \/ U64Lt(APFS_LAST_FREE_OBJECTID, key.objectid))
                /\ key.objectid # APFS_ROOT_TREE_DIR_OBJECTID
                /\ key.objectid # APFS_FREE_INO_OBJECTID
        THEN Verdict(-EUCLEAN, {},
                     <<Msg(IF is_inode_item THEN "generic_err" ELSE "dir_item_err", at)>>)
        ELSE Verdict(0, {}, <<>>)

\* check_inode_key, for the key of an inode item or a location key.
check_inode_key(leaf, key, at) ==
    LET item_key == leaf.items[at + 1].key
        is_inode_item == item_key.type = APFS_INODE_ITEM_KEY
    IN  IF item_key.type = APFS_XATTR_ITEM_KEY
        THEN IF key.objectid # 0 \/ key.type # 0 \/ key.offset # 0
             THEN Verdict(-EUCLEAN, {}, <<>>)
             ELSE Verdict(0, {}, <<>>)
        ELSE IF (U64Lt(key.objectid, APFS_FIRST_FREE_OBJECTID)
                   \/ U64Lt(APFS_LAST_FREE_OBJECTID, key.objectid))
                /\ key.objectid # APFS_ROOT_TREE_DIR_OBJECTID
                /\ key.objectid # APFS_FREE_INO_OBJECTID
        THEN Verdict(-EUCLEAN, {},
                     <<Msg(IF is_inode_item THEN "generic_err" ELSE "dir_item_err", at)>>)
        ELSE IF key.offset # 0
        THEN Verdict(-EUCLEAN, {}, <<Msg("dir_item_err", at)>>)
        ELSE Verdict(0, {}, <<>>)

\* check_root_key, for the key of a root item or a location key.
check_root_key(leaf, key, at) ==
    LET item_key == leaf.items[at + 1].key
        is_root_item == item_key.type = APFS_ROOT_ITEM_KEY
    IN  IF key.objectid = 0
        THEN Verdict(-EUCLEAN, {},
                     <<Msg(IF is_root_item THEN "generic_err" ELSE "dir_item_err", at)>>)
        ELSE IF ~is_fstree(key.objectid) /\ ~is_root_item
        THEN Verdict(-EUCLEAN, {}, <<Msg("dir_item_err", at)>>)
        ELSE IF key.objectid = APFS_TREE_RELOC_OBJECTID /\ key.offset = 0
        THEN Verdict(-EUCLEAN, {}, <<Msg("generic_err", at)>>)
        ELSE Verdict(0, {}, <<>>)

\* APFS_MAX_XATTR_SIZE(fs_info)
APFS_MAX_XATTR_SIZE == APFS_LEAF_DATA_SIZE - SizeofItem - SizeofDirItem

\* The k-th entry stored in a directory item: the drawn ones first, then
\* an entry whose name fills the rest of the item when one fits.
DirEntry(d, k, cur, item_size) ==
    LET from == WAdd(cur, W(SizeofDirItem))
        last == d.entries[Len(d.entries)]
    IN  IF k <= Len(d.entries) THEN d.entries[k]
        ELSE [last EXCEPT !.name_len =
                IF WLe(from, item_size) /\ WLe(item_size, WAdd(from, W(APFS_NAME_LEN)))
                THEN (item_size.hi - from.hi) * Limb + item_size.lo - from.lo
                ELSE APFS_NAME_LEN + 1]

\* check_dir_item: the loop over the packed entries, from entry k at offset
\* cur of the item.  A read that leaves the block has no defined result:
\* the walk ends there with the outcome d.oob drawn with the input.
RECURSIVE dir_item_walk(_, _, _, _, _, _)
dir_item_walk(leaf, key, at, cur, k, acc) ==
    LET d == leaf.items[at + 1].p
        item_size == apfs_item_size_nr(leaf, at)
        di == WAdd(apfs_item_ptr_offset(leaf, at), cur)
        e == DirEntry(d, k, cur, item_size)
        err == <<Msg("dir_item_err", at)>>
        rd_loc == acc \cup {Field(di, apfs_dir_item.location)}
        rd_type == rd_loc \cup {Field(di, apfs_dir_item.type)}
        rd_len == rd_type \cup {Field(di, apfs_dir_item.name_len),
                                Field(di, apfs_dir_item.data_len)}
        rd_name == rd_len \cup {[lo |-> WAdd(di, W(SizeofDirItem)),
                                hi |-> WAdd(di, W(SizeofDirItem + e.name_len))]}
        kr == IF e.location.type = APFS_ROOT_ITEM_KEY
              THEN check_root_key(leaf, e.location, at)
              ELSE check_inode_key(leaf, e.location, at)
        max_name_len == IF e.type = APFS_FT_XATTR THEN XATTR_NAME_MAX ELSE APFS_NAME_LEN
        total_size == SizeofDirItem + e.name_len + e.data_len
        hashed == key.type = APFS_DIR_ITEM_KEY \/ key.type = APFS_XATTR_ITEM_KEY
    IN  IF ~WLt(cur, item_size) THEN Verdict(0, acc, <<>>)
        ELSE IF WLt(item_size, WAdd(cur, W(SizeofDirItem))) THEN Verdict(-EUCLEAN, acc, err)
        ELSE IF WLt(W(NodeSize), WAdd(di, W(SizeofDirItem)))
        THEN Verdict(d.oob, rd_loc, IF d.oob < 0 THEN err ELSE <<>>)
        ELSE IF e.location.type \notin {APFS_ROOT_ITEM_KEY, APFS_INODE_ITEM_KEY, 0}
        THEN Verdict(-EUCLEAN, rd_loc, err)
        ELSE IF kr.ret < 0 THEN Verdict(kr.ret, rd_loc, kr.diag)
        ELSE IF e.type >= APFS_FT_MAX THEN Verdict(-EUCLEAN, rd_type, err)
        ELSE IF key.type = APFS_XATTR_ITEM_KEY /\ e.type # APFS_FT_XATTR
        THEN Verdict(-EUCLEAN, rd_type, err)
        ELSE IF e.type = APFS_FT_XATTR /\ key.type # APFS_XATTR_ITEM_KEY
        THEN Verdict(-EUCLEAN, rd_type, err)
        ELSE IF e.name_len > max_name_len THEN Verdict(-EUCLEAN, rd_len, err)
        ELSE IF e.name_len + e.data_len > APFS_MAX_XATTR_SIZE THEN Verdict(-EUCLEAN, rd_len, err)
        ELSE IF e.data_len # 0 /\ e.type # APFS_FT_XATTR THEN Verdict(-EUCLEAN, rd_len, err)
        ELSE IF WLt(item_size, U32Add(cur, W(total_size))) THEN Verdict(-EUCLEAN, rd_len, err)
        ELSE IF hashed /\ key.offset # e.name_hash THEN Verdict(-EUCLEAN, rd_name, err)
        ELSE dir_item_walk(leaf, key, at, U32Add(cur, W(total_size)), k + 1,
                           IF hashed THEN rd_name ELSE rd_len)

\* check_dir_item
check_dir_item(leaf, key, prev, at) ==
    IF ~check_prev_ino(leaf, key, at, prev)
    THEN Verdict(-EUCLEAN, {}, <<Msg("dir_item_err", at)>>)
    ELSE dir_item_walk(leaf, key, at, W(0), 1, {})

\* mode & S_IFMT with the top bit of the field left out
ModeFormat_three_bits(mode) == ((mode \div S_IFIFO) % 8) * S_IFIFO

\* mode & S_IFMT: the four bits above the twelve permission bits
ModeFormat(mode) == ((mode \div S_IFIFO) % 16) * S_IFIFO

\* has_single_bit_set(n)
RECURSIVE has_single_bit_set(_)
has_single_bit_set(n) == n > 0 /\ (n = 1 \/ (n % 2 = 0 /\ has_single_bit_set(n \div 2)))

\* check_inode_item
check_inode_item(leaf, key, at) ==
    LET ptr == apfs_item_ptr_offset(leaf, at)
        d == leaf.items[at + 1].p
        kr == check_inode_key(leaf, key, at)
        rd_gen == {Field(ptr, apfs_inode_item.generation)}
        rd_tid == rd_gen \cup {Field(ptr, apfs_inode_item.transid)}
        rd_mode == rd_tid \cup {Field(ptr, apfs_inode_item.mode)}
        fmt == ModeFormat(d.mode)
        rd_nlink == IF fmt = S_IFDIR
                    THEN rd_mode \cup {Field(ptr, apfs_inode_item.nlink)} ELSE rd_mode
        rd_flags == rd_nlink \cup {Field(ptr, apfs_inode_item.flags)}
        err == <<Msg("dir_item_err", at)>>
    IN  IF kr.ret < 0 THEN kr
        ELSE IF d.generation > SuperGeneration + 1 THEN Verdict(-EUCLEAN, rd_gen, err)
        ELSE IF d.transid > SuperGeneration + 1 THEN Verdict(-EUCLEAN, rd_tid, err)
        ELSE IF d.mode >= ValidModeMask + 1 THEN Verdict(-EUCLEAN, rd_mode, err)
        ELSE IF ~has_single_bit_set(fmt)
                /\ fmt # S_IFLNK /\ fmt # S_IFBLK /\ fmt # S_IFSOCK
        THEN Verdict(-EUCLEAN, rd_mode, err)
        ELSE IF fmt = S_IFDIR /\ d.nlink > 1 THEN Verdict(-EUCLEAN, rd_nlink, err)
        ELSE IF d.flags >= InodeFlagLimit THEN Verdict(-EUCLEAN, rd_flags, err)
        ELSE Verdict(0, rd_flags, <<>>)

\* The name_len stored in the k-th record of an inode ref item: the drawn
\* ones first, then a name that fills the rest of the item when one fits.
NameLen(d, k, ptr, end) ==
    LET from == WAdd(ptr, W(SizeofInodeRef))
    IN  IF k <= Len(d.name_lens) THEN d.name_lens[k]
        ELSE IF WLe(from, end) /\ WLt(end, WAdd(from, W(Limb - 1)))
        THEN (end.hi - from.hi) * Limb + end.lo - from.lo
        ELSE Limb - 1

\* check_inode_ref: the loop over the packed records, from record k at ptr.
\* A name_len read that leaves the block has no defined result: the walk
\* ends there with the outcome d.oob drawn with the input.
RECURSIVE inode_ref_walk(_, _, _, _, _, _)
inode_ref_walk(d, at, ptr, end, k, acc) ==
    IF ~WLt(ptr, end) THEN Verdict(0, acc, <<>>)
    ELSE IF WLt(end, WAdd(ptr, W(SizeofPointer)))
    THEN Verdict(-EUCLEAN, acc, <<Msg("dir_item_err", at)>>)
    ELSE LET namelen == NameLen(d, k, ptr, end)
             rd == Field(ptr, apfs_inode_ref.name_len)
             acc1 == acc \cup {rd}
             next == WAdd(ptr, W(SizeofInodeRef + namelen))
         IN  IF WLt(W(NodeSize), rd.hi)
             THEN Verdict(d.oob, acc1, IF d.oob < 0 THEN <<Msg("dir_item_err", at)>> ELSE <<>>)
             ELSE IF WLt(end, next)
             THEN Verdict(-EUCLEAN, acc1, <<Msg("dir_item_err", at)>>)
             ELSE inode_ref_walk(d, at, next, end, k + 1, acc1)

\* check_inode_ref
check_inode_ref(leaf, key, prev, at) ==
    LET ptr == apfs_item_ptr_offset(leaf, at)
        end == WAdd(ptr, apfs_item_size_nr(leaf, at))
    IN  IF ~check_prev_ino(leaf, key, at, prev)
        THEN Verdict(-EUCLEAN, {}, <<Msg("dir_item_err", at)>>)
        ELSE IF WLe(apfs_item_size_nr(leaf, at), W(SizeofInodeRef))
        THEN Verdict(-EUCLEAN, {}, <<Msg("dir_item_err", at)>>)
        ELSE inode_ref_walk(leaf.items[at + 1].p, at, ptr, end, 1, {})

\* file_extent_end: the end of the file range of an extent item.
file_extent_end(key, extent) ==
    IF extent.type = APFS_FILE_EXTENT_INLINE
    THEN ALIGN(key.offset + extent.ram_bytes, SectorSize)
    ELSE key.offset + extent.num_bytes

\* The first unaligned field when the check of the offset field is left out.
FirstUnaligned_skips_offset(fi) ==
    IF ~IS_ALIGNED(fi.ram_bytes, SectorSize) THEN "ram_bytes"
    ELSE IF ~IS_ALIGNED(fi.disk_bytenr, SectorSize) THEN "disk_bytenr"
    ELSE IF ~IS_ALIGNED(fi.disk_num_bytes, SectorSize) THEN "disk_num_bytes"
    ELSE IF ~IS_ALIGNED(fi.num_bytes, SectorSize) THEN "num_bytes"
    ELSE ""

\* The first field of a regular extent that is not sector aligned, in the
\* order of the CHECK_FE_ALIGNED calls; "" when all are aligned.
FirstUnaligned(fi) ==
    IF ~IS_ALIGNED(fi.ram_bytes, SectorSize) THEN "ram_bytes"
    ELSE IF ~IS_ALIGNED(fi.disk_bytenr, SectorSize) THEN "disk_bytenr"
    ELSE IF ~IS_ALIGNED(fi.disk_num_bytes, SectorSize) THEN "disk_num_bytes"
    ELSE IF ~IS_ALIGNED(fi.offset, SectorSize) THEN "offset"
    ELSE IF ~IS_ALIGNED(fi.num_bytes, SectorSize) THEN "num_bytes"
    ELSE ""

\* check_extent_data_item
check_extent_data_item(leaf, key, at, prev) ==
    LET ptr == apfs_item_ptr_offset(leaf, at)
        fi == leaf.items[at + 1].p
        item_size == apfs_item_size_nr(leaf, at)
        f == apfs_file_extent_item
        err == <<Msg("file_extent_err", at)>>
        rd_type == {Field(ptr, f.type)}
        rd_comp == rd_type \cup {Field(ptr, f.compression)}
        rd_enc == rd_comp \cup {Field(ptr, f.encryption)}
        rd_ram == rd_enc \cup {Field(ptr, f.ram_bytes)}
        bad == FirstUnaligned(fi)
        rd_algn == rd_ram \cup
                   (IF bad = "ram_bytes" THEN {}
                    ELSE {Field(ptr, f.disk_bytenr)} \cup
                    (IF bad = "disk_bytenr" THEN {}
                     ELSE {Field(ptr, f.disk_num_bytes)} \cup
                     (IF bad = "disk_num_bytes" THEN {}
                      ELSE {Field(ptr, f.offset)} \cup
                      (IF bad = "offset" THEN {} ELSE {Field(ptr, f.num_bytes)}))))
        prev_ptr == apfs_item_ptr_offset(leaf, at - 1)
        prev_fi == leaf.items[at].p
        rd_prev == {Field(prev_ptr, f.type),
                    Field(prev_ptr, IF prev_fi.type = APFS_FILE_EXTENT_INLINE
                                    THEN f.ram_bytes ELSE f.num_bytes)}
    IN  IF ~IS_ALIGNED(key.offset, SectorSize) THEN Verdict(-EUCLEAN, {}, err)
        ELSE IF ~check_prev_ino(leaf, key, at, prev)
        THEN Verdict(-EUCLEAN, {}, <<Msg("dir_item_err", at)>>)
        ELSE IF WLt(item_size, W(APFS_FILE_EXTENT_INLINE_DATA_START))
        THEN Verdict(-EUCLEAN, {}, err)
        ELSE IF fi.type >= APFS_NR_FILE_EXTENT_TYPES THEN Verdict(-EUCLEAN, rd_type, err)
        ELSE IF fi.compression >= APFS_NR_COMPRESS_TYPES THEN Verdict(-EUCLEAN, rd_comp, err)
        ELSE IF fi.encryption # 0 THEN Verdict(-EUCLEAN, rd_enc, err)
        ELSE IF fi.type = APFS_FILE_EXTENT_INLINE
        THEN IF key.offset # 0 THEN Verdict(-EUCLEAN, rd_enc, err)
             ELSE IF fi.compression # APFS_COMPRESS_NONE THEN Verdict(0, rd_enc, <<>>)
             ELSE IF fi.ram_bytes < 0
                     \/ item_size # W(APFS_FILE_EXTENT_INLINE_DATA_START + fi.ram_bytes)
             THEN Verdict(-EUCLEAN, rd_ram, err)
             ELSE Verdict(0, rd_ram, <<>>)
        ELSE IF item_size # W(SizeofFileExtentItem) THEN Verdict(-EUCLEAN, rd_enc, err)
        ELSE IF bad # "" THEN Verdict(-EUCLEAN, rd_algn, err)
        ELSE IF U64Carry(fi.num_bytes, key.offset) THEN Verdict(-EUCLEAN, rd_algn, err)
        ELSE IF at > 0 /\ prev.objectid = key.objectid /\ prev.type = APFS_EXTENT_DATA_KEY
        THEN IF U64Lt(key.offset, file_extent_end(prev, prev_fi))
             THEN WithPrev(Verdict(-EUCLEAN, rd_algn, <<Msg("file_extent_err", at - 1)>>),
                           rd_prev)
             ELSE WithPrev(Verdict(0, rd_algn, <<>>), rd_prev)
        ELSE Verdict(0, rd_algn, <<>>)

\* check_leaf_item: dispatch on the key type; other types have no validator.
check_leaf_item(leaf, key, at, prev) ==
    IF key.type = APFS_EXTENT_DATA_KEY THEN check_extent_data_item(leaf, key, at, prev)
    ELSE IF key.type \in {APFS_DIR_ITEM_KEY, APFS_DIR_INDEX_KEY, APFS_XATTR_ITEM_KEY}
    THEN check_dir_item(leaf, key, prev, at)
    ELSE IF key.type = APFS_INODE_REF_KEY THEN check_inode_ref(leaf, key, prev, at)
    ELSE IF key.type = APFS_DEV_ITEM_KEY THEN check_dev_item(leaf, key, at)
    ELSE IF key.type = APFS_INODE_ITEM_KEY THEN check_inode_item(leaf, key, at)
    ELSE Verdict(0, {}, <<>>)

----------------------------------------------------------------------------
(* The leaf checks behind the early return of check_leaf, one action per   *)
(* loop iteration.  The header is drawn at the start; the item of a slot   *)
(* is drawn when the loop reads it.                                        *)

\* Keys an item can carry, by the tree the leaf belongs to: one per
\* validator, and one of a type that has no validator.
SlotKeys(owner) ==
    IF owner = APFS_FS_TREE_OBJECTID
    THEN {Key(APFS_FIRST_FREE_OBJECTID, APFS_INODE_ITEM_KEY, 0),
          Key(APFS_FIRST_FREE_OBJECTID, APFS_INODE_REF_KEY, APFS_FIRST_FREE_OBJECTID),
          Key(APFS_FIRST_FREE_OBJECTID, APFS_XATTR_ITEM_KEY, 7),
          Key(APFS_FIRST_FREE_OBJECTID, APFS_DIR_ITEM_KEY, 7),
          Key(APFS_FIRST_FREE_OBJECTID + 1, 0, 0)}
    ELSE IF owner = APFS_FIRST_FREE_OBJECTID
    THEN {Key(APFS_FIRST_FREE_OBJECTID, APFS_INODE_ITEM_KEY, 0),
          Key(APFS_FIRST_FREE_OBJECTID, APFS_EXTENT_DATA_KEY, 0),
          Key(APFS_FIRST_FREE_OBJECTID, APFS_EXTENT_DATA_KEY, SectorSize),
          Key(APFS_FIRST_FREE_OBJECTID, APFS_EXTENT_DATA_KEY, SectorSize + 1)}
    ELSE {Key(APFS_DEV_ITEMS_OBJECTID, APFS_DEV_ITEM_KEY, 1),
          Key(APFS_FIRST_FREE_OBJECTID, APFS_INODE_REF_KEY, APFS_FIRST_FREE_OBJECTID),
          Key(APFS_FIRST_FREE_OBJECTID + 1, 0, 0)}

\* Directory entries: a valid xattr entry, a valid directory entry to an
\* inode and one to a subvolume, and entries with one field wrong.
DirEntries ==
    {[location |-> l, type |-> APFS_FT_XATTR, name_len |-> 1, data_len |-> 0, name_hash |-> 7]
       : l \in {ZeroKey, Key(0, 0, 1)}}
    \cup {[location |-> Key(APFS_FIRST_FREE_OBJECTID, lt, 0), type |-> t, name_len |-> 1,
           data_len |-> 0, name_hash |-> 7]
            : lt \in {APFS_INODE_ITEM_KEY, APFS_ROOT_ITEM_KEY, APFS_DIR_ITEM_KEY},
              t \in {1, APFS_FT_MAX}}
    \cup {[location |-> Key(APFS_FIRST_FREE_OBJECTID, APFS_INODE_ITEM_KEY, 0), type |-> 1,
           name_len |-> 1, data_len |-> 0, name_hash |-> 8]}

\* Item sizes as stored on disk (32 bits): empty, the size of a device
\* item, the whole data area, two sizes whose sum with the offset wraps,
\* and the sizes the validator of the key type accepts or just rejects.
SlotSizes(key) ==
    {W(0), W(98), W(APFS_LEAF_DATA_SIZE), W(APFS_LEAF_DATA_SIZE + 16),
     [hi |-> Limb - 1, lo |-> Limb - 50]}
    \cup (IF key.type = APFS_INODE_REF_KEY
          THEN {W(SizeofInodeRef + 1), W(SizeofInodeRef + 1 + SizeofPointer)}
          ELSE IF key.type \in {APFS_DIR_ITEM_KEY, APFS_XATTR_ITEM_KEY}
          THEN {W(SizeofDirItem + 1)}
          ELSE IF key.type = APFS_INODE_ITEM_KEY THEN {W(160)}
          ELSE IF key.type = APFS_EXTENT_DATA_KEY
          THEN {W(APFS_FILE_EXTENT_INLINE_DATA_START), W(SizeofFileExtentItem)}
          ELSE {})

\* Item offsets: the one that ends the item at e, one byte later, and 0.
SlotOffsets(e, size) == {U32Sub(e, size), U32Add(U32Sub(e, size), W(1)), W(0)}

\* File extent items: regular extents of one and of two sectors, one whose
\* end overflows, compressed inline extents of two sectors and of the
\* largest ram_bytes, an empty uncompressed inline extent, and extents with
\* one field wrong.
FileExtent(type, compression, encryption, ram_bytes, disk_bytenr, num_bytes) ==
    [kind |-> "fe", type |-> type, compression |-> compression, encryption |-> encryption,
     ram_bytes |-> ram_bytes, disk_bytenr |-> disk_bytenr, disk_num_bytes |-> SectorSize,
     offset |-> 0, num_bytes |-> num_bytes]

FileExtents ==
    {FileExtent(1, 0, 0, SectorSize, SectorSize, nb) : nb \in {SectorSize, 2 * SectorSize, -SectorSize}}
    \cup {FileExtent(APFS_FILE_EXTENT_INLINE, 1, 0, rb, 0, 0) : rb \in {2 * SectorSize, -1}}
    \cup {FileExtent(APFS_FILE_EXTENT_INLINE, APFS_COMPRESS_NONE, 0, 0, 0, 0),
          FileExtent(APFS_NR_FILE_EXTENT_TYPES, 0, 0, SectorSize, SectorSize, SectorSize),
          FileExtent(1, APFS_NR_COMPRESS_TYPES, 0, SectorSize, SectorSize, SectorSize),
          FileExtent(1, 0, 1, SectorSize, SectorSize, SectorSize),
          FileExtent(1, 0, 0, SectorSize, SectorSize + 1, SectorSize)}

\* Payload fields a validator may read, by key type.
Payloads(key) ==
    IF key.type = APFS_DEV_ITEM_KEY
    THEN {[kind |-> "dev", devid |-> id, total_bytes |-> tb, bytes_used |-> SectorSize]
            : id \in {1, 2}, tb \in {0, SectorSize}}
    ELSE IF key.type = APFS_INODE_REF_KEY
    THEN {[kind |-> "iref", name_lens |-> nl, oob |-> ub]
            : nl \in {<<1>>, <<SizeofPointer + 1>>}, ub \in {0, -EUCLEAN}}
    ELSE IF key.type \in {APFS_DIR_ITEM_KEY, APFS_XATTR_ITEM_KEY}
    THEN {[kind |-> "dir", entries |-> <<e>>, oob |-> 0] : e \in DirEntries}
         \cup {[kind |-> "dir", entries |-> <<e>>, oob |-> -EUCLEAN]
                 : e \in {x \in DirEntries : x.location = ZeroKey}}
    ELSE IF key.type = APFS_EXTENT_DATA_KEY
    THEN FileExtents
    ELSE IF key.type = APFS_INODE_ITEM_KEY
    THEN {[kind |-> "inode", generation |-> g, transid |-> 0, mode |-> m, nlink |-> 1,
           flags |-> 0] : g \in {1, SuperGeneration + 2}, m \in {S_IFDIR, S_IFDIR + S_IFIFO}}
    ELSE {NoPayload}

\* Payloads of the leaves walked in relaxed mode: of each key type one the
\* validator of full mode accepts and one it rejects.
RelaxedPayloads(key) ==
    IF key.type = APFS_DEV_ITEM_KEY
    THEN {p \in Payloads(key) : p.total_bytes = SectorSize}
    ELSE IF key.type = APFS_INODE_REF_KEY
    THEN {p \in Payloads(key) : p.oob = 0}
    ELSE IF key.type \in {APFS_DIR_ITEM_KEY, APFS_XATTR_ITEM_KEY}
    THEN {p \in Payloads(key) : p.oob = 0 /\ p.entries[1].type = APFS_FT_XATTR}
    ELSE IF key.type = APFS_EXTENT_DATA_KEY
    THEN {FileExtent(1, 0, 0, SectorSize, SectorSize, SectorSize),
          FileExtent(1, 0, 1, SectorSize, SectorSize, SectorSize)}
    ELSE IF key.type = APFS_INODE_ITEM_KEY
    THEN {p \in Payloads(key) : p.mode = S_IFDIR}
    ELSE Payloads(key)

SlotInputs(owner, e, item_data) ==
    UNION {UNION {{[key |-> k, offset |-> o, size |-> sz, p |-> pl]
                     : o \in SlotOffsets(e, sz),
                       pl \in IF item_data THEN Payloads(k) ELSE RelaxedPayloads(k)}
                  : sz \in SlotSizes(k)}
           : k \in SlotKeys(owner)}

\* Leaf headers: every owner for an empty leaf, a subvolume tree and the
\* chunk tree for a leaf with items.
LeafHeaders ==
    {[kind |-> "leaf", level |-> lv, nritems |-> n, owner |-> ow, reloc |-> rl,
      items |-> <<>>, ptrs |-> <<>>]
       : lv \in {0, 1}, n \in 0 .. MaxItems, ow \in Owners, rl \in BOOLEAN}

InitLeafWalk ==
    /\ CodecIdle
    /\ BufIdle
    /\ DefragIdle
    /\ eb \in {h \in LeafHeaders :
                 h.nritems = 0
                 \/ (~h.reloc /\ h.owner \in {APFS_FS_TREE_OBJECTID, APFS_CHUNK_TREE_OBJECTID,
                                       APFS_FIRST_FREE_OBJECTID})}
    /\ check_item_data \in BOOLEAN
    /\ pc = "check_leaf"
    /\ result = 0
    /\ slot = 0
    /\ prev_key = ZeroKey
    /\ accesses = {}
    /\ diag = <<>>

LeafFail_keeps_walking(msgs) ==
    /\ result' = -EUCLEAN
    /\ diag' = diag \o msgs
    /\ slot' = slot + 1
    /\ UNCHANGED <<pc, prev_key>>

LeafFail(msgs) ==
    /\ result' = -EUCLEAN
    /\ diag' = diag \o msgs
    /\ pc' = "done"
    /\ UNCHANGED <<slot, prev_key>>

\* The level and the empty-leaf rules ahead of the loop.
LeafHeader ==
    /\ pc = "check_leaf"
    /\ IF eb.level # 0
       THEN LeafFail(<<Msg("generic_err", 0)>>)
       ELSE IF eb.nritems = 0 /\ ~eb.reloc
       THEN IF eb.owner \in {APFS_ROOT_TREE_OBJECTID, APFS_CHUNK_TREE_OBJECTID,
                             APFS_EXTENT_TREE_OBJECTID, APFS_DEV_TREE_OBJECTID,
                             APFS_FS_TREE_OBJECTID, APFS_DATA_RELOC_TREE_OBJECTID}
            THEN LeafFail(<<Msg("generic_err", 0)>>)
            ELSE IF eb.owner = 0
            THEN LeafFail(<<Msg("generic_err", 0)>>)
            ELSE /\ result' = 0
                 /\ pc' = "done"
                 /\ UNCHANGED <<slot, prev_key, diag>>
       ELSE IF eb.nritems = 0
       THEN /\ result' = 0
            /\ pc' = "done"
            /\ UNCHANGED <<slot, prev_key, diag>>
       ELSE /\ pc' = "leaf_slots"
            /\ UNCHANGED <<result, slot, prev_key, diag>>
    /\ UNCHANGED <<eb, check_item_data, accesses>>
    /\ UNCHANGED <<codecVars, bufVars, defragVars>>

\* apfs_item_end_nr(leaf, slot): offset + size in 32 bits
apfs_item_end_nr(leaf, at) == U32Add(leaf.items[at + 1].offset, leaf.items[at + 1].size)

\* The ranges a validator of slot at read, with the slot they belong to.
Tagged(v, at) ==
    {[slot |-> at, lo |-> a.lo, hi |-> a.hi] : a \in v.acc}
    \cup {[slot |-> at - 1, lo |-> a.lo, hi |-> a.hi] : a \in v.prev}

ItemDataChecked_in_both_modes(item_data) == TRUE

\* if (check_item_data): whether the loop hands the item to check_leaf_item.
ItemDataChecked(item_data) == item_data

\* One iteration of the loop over the slots.
LeafSlot ==
    /\ pc = "leaf_slots"
    /\ slot < eb.nritems
    /\ \E item \in SlotInputs(eb.owner, IF slot = 0 THEN W(APFS_LEAF_DATA_SIZE)
                              ELSE eb.items[slot].offset, check_item_data) :
         LET leaf == [eb EXCEPT !.items = Append(@, item)]
             key == item.key
             item_end_expected == IF slot = 0 THEN W(APFS_LEAF_DATA_SIZE)
                                  ELSE leaf.items[slot].offset
             v == check_leaf_item(leaf, key, slot, prev_key)
         IN  /\ eb' = leaf
             /\ IF apfs_comp_cpu_keys(prev_key, key) >= 0
                THEN LeafFail(<<Msg("generic_err", slot)>>) /\ UNCHANGED accesses
                ELSE IF apfs_item_end_nr(leaf, slot) # item_end_expected
                THEN LeafFail(<<Msg("generic_err", slot)>>) /\ UNCHANGED accesses
                ELSE IF WLt(W(APFS_LEAF_DATA_SIZE), apfs_item_end_nr(leaf, slot))
                THEN LeafFail(<<Msg("generic_err", slot)>>) /\ UNCHANGED accesses
                ELSE IF ItemDataChecked(check_item_data) /\ v.ret < 0
                THEN /\ result' = v.ret
                     /\ diag' = diag \o v.diag
                     /\ pc' = "done"
                     /\ accesses' = accesses \cup Tagged(v, slot)
                     /\ UNCHANGED <<slot, prev_key>>
                ELSE /\ accesses' = IF ItemDataChecked(check_item_data)
                                    THEN accesses \cup Tagged(v, slot)
                                    ELSE accesses
                     /\ prev_key' = key
                     /\ slot' = slot + 1
                     /\ UNCHANGED <<result, diag, pc>>
    /\ UNCHANGED check_item_data
    /\ UNCHANGED <<codecVars, bufVars, defragVars>>

\* The return after the last slot.
LeafReturn ==
    /\ pc = "leaf_slots"
    /\ ~(slot < eb.nritems)
    /\ result' = 0
    /\ pc' = "done"
    /\ UNCHANGED <<eb, slot, prev_key, check_item_data, accesses, diag>>
    /\ UNCHANGED <<codecVars, bufVars, defragVars>>

NextLeafWalk == LeafHeader \/ LeafSlot \/ LeafReturn

SpecLeafWalk == InitLeafWalk /\ [][NextLeafWalk]_vars

----------------------------------------------------------------------------
(* apfs_check_chunk_valid, applied to one chunk.                           *)

\* Block group flags: the type bits, then the profile bits.
APFS_BLOCK_GROUP_DATA == 1
APFS_BLOCK_GROUP_SYSTEM == 2
APFS_BLOCK_GROUP_METADATA == 4
APFS_BLOCK_GROUP_RAID0 == 8
APFS_BLOCK_GROUP_RAID1 == 16
APFS_BLOCK_GROUP_DUP == 32
APFS_BLOCK_GROUP_RAID10 == 64
APFS_BLOCK_GROUP_RAID5 == 128
APFS_BLOCK_GROUP_RAID6 == 256
APFS_STRIPE_LEN == 65536

\* The flag bit is set in flags.
HasFlag(flags, bit) == (flags \div bit) % 2 = 1

\* The type bits when the profile bits are taken for type bits too.
TypeBits_with_profile(type) == type % (2 * APFS_BLOCK_GROUP_RAID6)

\* type & APFS_BLOCK_GROUP_TYPE_MASK and type & APFS_BLOCK_GROUP_PROFILE_MASK
TypeBits(type) == type % APFS_BLOCK_GROUP_RAID0
ProfileBits(type) ==
    ((type \div APFS_BLOCK_GROUP_RAID0) % ((2 * APFS_BLOCK_GROUP_RAID6) \div APFS_BLOCK_GROUP_RAID0))
      * APFS_BLOCK_GROUP_RAID0

\* apfs_raid_array[apfs_bg_flags_to_raid_index(type)]: copies and parity
\* stripes of the profile of a chunk.
apfs_raid_array(type) ==
    IF HasFlag(type, APFS_BLOCK_GROUP_RAID10) THEN [ncopies |-> 2, nparity |-> 0]
    ELSE IF HasFlag(type, APFS_BLOCK_GROUP_RAID1) THEN [ncopies |-> 2, nparity |-> 0]
    ELSE IF HasFlag(type, APFS_BLOCK_GROUP_DUP) THEN [ncopies |-> 2, nparity |-> 0]
    ELSE IF HasFlag(type, APFS_BLOCK_GROUP_RAID0) THEN [ncopies |-> 1, nparity |-> 0]
    ELSE IF HasFlag(type, APFS_BLOCK_GROUP_RAID5) THEN [ncopies |-> 1, nparity |-> 1]
    ELSE IF HasFlag(type, APFS_BLOCK_GROUP_RAID6) THEN [ncopies |-> 1, nparity |-> 2]
    ELSE [ncopies |-> 1, nparity |-> 0]

StripeTableBad_raid1_at_least_two(type, num_stripes, sub_stripes) ==
    \/ HasFlag(type, APFS_BLOCK_GROUP_RAID10) /\ sub_stripes # 2
    \/ HasFlag(type, APFS_BLOCK_GROUP_RAID1) /\ num_stripes < 2
    \/ HasFlag(type, APFS_BLOCK_GROUP_RAID5) /\ num_stripes < 2
    \/ HasFlag(type, APFS_BLOCK_GROUP_RAID6) /\ num_stripes < 3
    \/ HasFlag(type, APFS_BLOCK_GROUP_DUP) /\ num_stripes # 2
    \/ ProfileBits(type) = 0 /\ num_stripes # 1

\* The last check of apfs_check_chunk_valid: the stripe counts of a profile.
StripeTableBad(type, num_stripes, sub_stripes) ==
    \/ HasFlag(type, APFS_BLOCK_GROUP_RAID10) /\ sub_stripes # 2
    \/ HasFlag(type, APFS_BLOCK_GROUP_RAID1) /\ num_stripes # 2
    \/ HasFlag(type, APFS_BLOCK_GROUP_RAID5) /\ num_stripes < 2
    \/ HasFlag(type, APFS_BLOCK_GROUP_RAID6) /\ num_stripes < 3
    \/ HasFlag(type, APFS_BLOCK_GROUP_DUP) /\ num_stripes # 2
    \/ ProfileBits(type) = 0 /\ num_stripes # 1

\* apfs_check_chunk_valid(leaf, chunk, logical); mixed is the MIXED_GROUPS
\* feature of the super block, at the slot chunk_err reports.
apfs_check_chunk_valid(chunk, logical, mixed, at) ==
    LET type == chunk.type
        raid == apfs_raid_array(type)
        err == Verdict(-EUCLEAN, {}, <<Msg("chunk_err", at)>>)
    IN  IF chunk.num_stripes = 0 THEN err
        ELSE IF chunk.num_stripes < raid.ncopies THEN err
        ELSE IF raid.nparity # 0 /\ chunk.num_stripes = raid.nparity THEN err
        ELSE IF ~IS_ALIGNED(logical, SectorSize) THEN err
        ELSE IF chunk.sector_size # SectorSize THEN err
        ELSE IF chunk.length = 0 \/ ~IS_ALIGNED(chunk.length, SectorSize) THEN err
        ELSE IF U64Carry(logical, chunk.length) THEN err
        ELSE IF ~has_single_bit_set(chunk.stripe_len) \/ chunk.stripe_len # APFS_STRIPE_LEN
        THEN err
        ELSE IF type >= 2 * APFS_BLOCK_GROUP_RAID6 THEN err
        ELSE IF ~has_single_bit_set(ProfileBits(type)) /\ ProfileBits(type) # 0 THEN err
        ELSE IF TypeBits(type) = 0 THEN err
        ELSE IF HasFlag(type, APFS_BLOCK_GROUP_SYSTEM)
                /\ (HasFlag(type, APFS_BLOCK_GROUP_METADATA)
                    \/ HasFlag(type, APFS_BLOCK_GROUP_DATA))
        THEN err
        ELSE IF ~mixed /\ HasFlag(type, APFS_BLOCK_GROUP_METADATA)
                /\ HasFlag(type, APFS_BLOCK_GROUP_DATA)
        THEN err
        ELSE IF StripeTableBad(type, chunk.num_stripes, chunk.sub_stripes) THEN err
        ELSE Verdict(0, {}, <<>>)

\* Largest stripe count drawn.
MaxStripes == 4

\* Chunk types drawn: a data chunk of each profile, and types with a
\* defect or without the data bit: system with data, data with metadata,
\* system or metadata alone, system with metadata, all three, no type bit,
\* two profile bits, an unknown bit.
ChunkTypes ==
    {APFS_BLOCK_GROUP_DATA + p
       : p \in {0, APFS_BLOCK_GROUP_RAID0, APFS_BLOCK_GROUP_RAID1, APFS_BLOCK_GROUP_DUP,
                APFS_BLOCK_GROUP_RAID10, APFS_BLOCK_GROUP_RAID5, APFS_BLOCK_GROUP_RAID6}}
    \cup {APFS_BLOCK_GROUP_SYSTEM + APFS_BLOCK_GROUP_DATA,
          APFS_BLOCK_GROUP_METADATA + APFS_BLOCK_GROUP_DATA,
          APFS_BLOCK_GROUP_SYSTEM, APFS_BLOCK_GROUP_METADATA,
          APFS_BLOCK_GROUP_SYSTEM + APFS_BLOCK_GROUP_METADATA,
          APFS_BLOCK_GROUP_SYSTEM + APFS_BLOCK_GROUP_METADATA + APFS_BLOCK_GROUP_DATA,
          APFS_BLOCK_GROUP_RAID1,
          APFS_BLOCK_GROUP_DATA + APFS_BLOCK_GROUP_RAID1 + APFS_BLOCK_GROUP_DUP,
          APFS_BLOCK_GROUP_DATA + 2 * APFS_BLOCK_GROUP_RAID6}

ChunkInputs ==
    {[kind |-> "chunk", type |-> t, num_stripes |-> ns, sub_stripes |-> ss, length |-> ln,
      stripe_len |-> sl, sector_size |-> sz, logical |-> lg, mixed |-> mx]
       : t \in ChunkTypes, ns \in 0 .. MaxStripes, ss \in {1, 2},
         ln \in {0, SectorSize, -SectorSize}, sl \in {APFS_STRIPE_LEN, SectorSize},
         sz \in {SectorSize, SectorSize \div 2}, lg \in {SectorSize, SectorSize + 1},
         mx \in BOOLEAN}

InitChunk ==
    /\ CodecIdle
    /\ BufIdle
    /\ DefragIdle
    /\ eb \in ChunkInputs
    /\ pc = "call"
    /\ result = 0
    /\ slot = 0
    /\ prev_key = ZeroKey
    /\ check_item_data = FALSE
    /\ accesses = {}
    /\ diag = <<>>

\* A call of apfs_check_chunk_valid on a chunk that is no item of a leaf.
CheckChunk ==
    /\ pc = "call"
    /\ eb.kind = "chunk"
    /\ LET v == apfs_check_chunk_valid(eb, eb.logical, eb.mixed, -1)
       IN  /\ result' = v.ret
           /\ diag' = v.diag
    /\ pc' = "done"
    /\ UNCHANGED <<eb, slot, prev_key, check_item_data, accesses>>
    /\ UNCHANGED <<codecVars, bufVars, defragVars>>

SpecChunk == InitChunk /\ [][CheckChunk]_vars

(***************************************************************************)
(* check_extent_item: the header of an extent item and its list of inline  *)
(* references.  An item is its key, its size and its bytes: the extent     *)
(* item header, the level of the tree block info that follows it in an     *)
(* EXTENT_ITEM of a tree block, and the inline references in order.        *)
(* Positions are counted from the first byte of the item.                  *)
(***************************************************************************)
APFS_EXTENT_ITEM_KEY == 168
APFS_METADATA_ITEM_KEY == 169
APFS_TREE_BLOCK_REF_KEY == 176
APFS_EXTENT_DATA_REF_KEY == 178
APFS_SHARED_BLOCK_REF_KEY == 182
APFS_SHARED_DATA_REF_KEY == 184

APFS_EXTENT_FLAG_DATA == 1
APFS_EXTENT_FLAG_TREE_BLOCK == 2
APFS_BLOCK_FLAG_FULL_BACKREF == 256

\* sizeof(struct apfs_extent_item), sizeof(struct apfs_tree_block_info),
\* sizeof(struct apfs_extent_inline_ref), sizeof(struct apfs_extent_data_ref),
\* sizeof(struct apfs_shared_data_ref), offsetof(apfs_extent_inline_ref, offset)
SizeofExtentItem == 24
SizeofTreeBlockInfo == 18
SizeofInlineRef == 9
SizeofExtentDataRef == 28
SizeofSharedDataRef == 4
OffsetofInlineRefOffset == 1

\* The size of a record when an extent data reference is taken to start at
\* the offset field's end instead of at the offset field.
apfs_extent_inline_ref_size_data_ref_short(type) ==
    IF type \in {APFS_TREE_BLOCK_REF_KEY, APFS_SHARED_BLOCK_REF_KEY} THEN SizeofInlineRef
    ELSE IF type = APFS_SHARED_DATA_REF_KEY THEN SizeofSharedDataRef + SizeofInlineRef
    ELSE IF type = APFS_EXTENT_DATA_REF_KEY THEN SizeofExtentDataRef
    ELSE 0

\* apfs_extent_inline_ref_size(type)
apfs_extent_inline_ref_size(type) ==
    IF type \in {APFS_TREE_BLOCK_REF_KEY, APFS_SHARED_BLOCK_REF_KEY} THEN SizeofInlineRef
    ELSE IF type = APFS_SHARED_DATA_REF_KEY THEN SizeofSharedDataRef + SizeofInlineRef
    ELSE IF type = APFS_EXTENT_DATA_REF_KEY
    THEN SizeofExtentDataRef + OffsetofInlineRefOffset
    ELSE 0

\* An inline reference as the loop reads it: its type, the offset field of
\* the apfs_extent_inline_ref, and for the two data types the offset of the
\* apfs_extent_data_ref and the count field.
InlineRef(type, offset, dref_offset, count) ==
    [type |-> type, offset |-> offset, dref_offset |-> dref_offset, count |-> count]

\* The bytes of an item past its last written reference read as zero.
ZeroRef == InlineRef(0, 0, 0, 0)

\* What one inline reference adds to inline_refs.
InlineRefs_one_per_ref(iref) == 1

InlineRefs(iref) ==
    IF iref.type \in {APFS_TREE_BLOCK_REF_KEY, APFS_SHARED_BLOCK_REF_KEY} THEN 1
    ELSE iref.count

\* The while loop of check_extent_item from reference k on, with ptr the
\* position of that reference and inline_refs the sum so far; the checks
\* after the loop when it ends.  inline_refs cannot wrap: an item is shorter
\* than a leaf and a count is 32 bits wide.
RECURSIVE inline_ref_walk(_, _, _, _, _, _, _)
inline_ref_walk(irefs, k, ptr, end, total_refs, inline_refs, at) ==
    LET err == Verdict(-EUCLEAN, {}, <<Msg("extent_err", at)>>)
        iref == IF k <= Len(irefs) THEN irefs[k] ELSE ZeroRef
        size == apfs_extent_inline_ref_size(iref.type)
    IN  IF ~(ptr < end)
        THEN IF ptr # end THEN err
             ELSE IF total_refs >= 0 /\ inline_refs > total_refs THEN err
             ELSE Verdict(0, {}, <<>>)
        ELSE IF ptr + SizeofInlineRef > end THEN err
        ELSE IF ptr + size > end THEN err
        ELSE IF iref.type = APFS_TREE_BLOCK_REF_KEY
        THEN inline_ref_walk(irefs, k + 1, ptr + size, end, total_refs,
                             inline_refs + InlineRefs(iref), at)
        ELSE IF iref.type = APFS_SHARED_BLOCK_REF_KEY
        THEN IF ~IS_ALIGNED(iref.offset, SectorSize) THEN err
             ELSE inline_ref_walk(irefs, k + 1, ptr + size, end, total_refs,
                                  inline_refs + InlineRefs(iref), at)
        ELSE IF iref.type = APFS_EXTENT_DATA_REF_KEY
        THEN IF ~IS_ALIGNED(iref.dref_offset, SectorSize) THEN err
             ELSE inline_ref_walk(irefs, k + 1, ptr + size, end, total_refs,
                                  inline_refs + InlineRefs(iref), at)
        ELSE IF iref.type = APFS_SHARED_DATA_REF_KEY
        THEN IF ~IS_ALIGNED(iref.offset, SectorSize) THEN err
             ELSE inline_ref_walk(irefs, k + 1, ptr + size, end, total_refs,
                                  inline_refs + InlineRefs(iref), at)
        ELSE err

\* check_extent_item(leaf, key, slot) on the item it; skinny is the
\* SKINNY_METADATA feature of the super block.  refs is a u64 (a negative
\* representative is at least 2^63, above every sum), generation is
\* compared with the super block's generation + 1.
check_extent_item(it, key, skinny, at) ==
    LET err == Verdict(-EUCLEAN, {}, <<Msg("extent_err", at)>>)
        flags == it.flags
        is_tree_block == HasFlag(flags, APFS_EXTENT_FLAG_TREE_BLOCK)
        has_info == is_tree_block /\ key.type # APFS_METADATA_ITEM_KEY
        ptr == SizeofExtentItem + (IF has_info THEN SizeofTreeBlockInfo ELSE 0)
    IN  IF key.type = APFS_METADATA_ITEM_KEY /\ ~skinny
        THEN Verdict(-EUCLEAN, {}, <<Msg("generic_err", at)>>)
        ELSE IF ~IS_ALIGNED(key.objectid, SectorSize)
        THEN Verdict(-EUCLEAN, {}, <<Msg("generic_err", at)>>)
        ELSE IF key.type = APFS_METADATA_ITEM_KEY /\ ~U64Lt(key.offset, APFS_MAX_LEVEL)
        THEN err
        ELSE IF it.size < SizeofExtentItem THEN err
        ELSE IF U64Lt(SuperGeneration + 1, it.generation) THEN err
        ELSE IF ~has_single_bit_set(flags % (2 * APFS_EXTENT_FLAG_TREE_BLOCK)) THEN err
        ELSE IF is_tree_block /\ key.type = APFS_EXTENT_ITEM_KEY /\ key.offset # NodeSize
        THEN err
        ELSE IF ~is_tree_block /\ key.type # APFS_EXTENT_ITEM_KEY THEN err
        ELSE IF ~is_tree_block /\ ~IS_ALIGNED(key.offset, SectorSize) THEN err
        ELSE IF ~is_tree_block /\ HasFlag(flags, APFS_BLOCK_FLAG_FULL_BACKREF) THEN err
        ELSE IF has_info /\ it.level >= APFS_MAX_LEVEL THEN err
        ELSE inline_ref_walk(it.irefs, 1, ptr, it.size, it.refs, 0, at)

\* Most inline references drawn for an item.
MaxRefs == 2

\* Inline references drawn: each of the four types, with an aligned and an
\* unaligned offset where the type has one checked, counts 0 to 3 for the
\* data types, and a type that is none of the four.
RefInputs ==
    {InlineRef(APFS_TREE_BLOCK_REF_KEY, APFS_FS_TREE_OBJECTID, 0, 0),
     InlineRef(APFS_SHARED_BLOCK_REF_KEY, SectorSize, 0, 0),
     InlineRef(APFS_SHARED_BLOCK_REF_KEY, SectorSize + 1, 0, 0),
     InlineRef(APFS_EXTENT_DATA_REF_KEY, APFS_FS_TREE_OBJECTID, 0, 0),
     InlineRef(APFS_EXTENT_DATA_REF_KEY, APFS_FS_TREE_OBJECTID, SectorSize, 2),
     InlineRef(APFS_EXTENT_DATA_REF_KEY, APFS_FS_TREE_OBJECTID, 1, 1),
     InlineRef(APFS_SHARED_DATA_REF_KEY, SectorSize, 0, 1),
     InlineRef(APFS_SHARED_DATA_REF_KEY, SectorSize, 0, 3),
     InlineRef(APFS_SHARED_DATA_REF_KEY, SectorSize + 1, 0, 1),
     InlineRef(APFS_DIR_ITEM_KEY, 0, 0, 1)}

RefSeqs == UNION {[1 .. n -> RefInputs] : n \in 0 .. MaxRefs}

\* The bytes the references of a list take.
RECURSIVE RefBytes(_)
RefBytes(irefs) ==
    IF irefs = <<>> THEN 0
    ELSE apfs_extent_inline_ref_size(Head(irefs).type) + RefBytes(Tail(irefs))

\* Key and flags of an extent item whose header passes: a data extent, a
\* tree block under an EXTENT_ITEM key, a tree block under a METADATA_ITEM
\* key.
ExtentHeads ==
    {[key |-> Key(SectorSize, APFS_EXTENT_ITEM_KEY, SectorSize), flags |-> APFS_EXTENT_FLAG_DATA,
      skinny |-> FALSE],
     [key |-> Key(SectorSize, APFS_EXTENT_ITEM_KEY, NodeSize),
      flags |-> APFS_EXTENT_FLAG_TREE_BLOCK + APFS_BLOCK_FLAG_FULL_BACKREF, skinny |-> FALSE],
     [key |-> Key(SectorSize, APFS_METADATA_ITEM_KEY, 1), flags |-> APFS_EXTENT_FLAG_TREE_BLOCK,
      skinny |-> TRUE]}

\* The same with one defect.
BadExtentHeads ==
    {[key |-> Key(SectorSize, APFS_METADATA_ITEM_KEY, 1), flags |-> APFS_EXTENT_FLAG_TREE_BLOCK,
      skinny |-> FALSE],
     [key |-> Key(SectorSize + 1, APFS_EXTENT_ITEM_KEY, SectorSize),
      flags |-> APFS_EXTENT_FLAG_DATA, skinny |-> FALSE],
     [key |-> Key(SectorSize, APFS_METADATA_ITEM_KEY, APFS_MAX_LEVEL),
      flags |-> APFS_EXTENT_FLAG_TREE_BLOCK, skinny |-> TRUE],
     [key |-> Key(SectorSize, APFS_EXTENT_ITEM_KEY, SectorSize),
      flags |-> APFS_EXTENT_FLAG_DATA + APFS_EXTENT_FLAG_TREE_BLOCK, skinny |-> FALSE],
     [key |-> Key(SectorSize, APFS_EXTENT_ITEM_KEY, SectorSize), flags |-> 0, skinny |-> FALSE],
     [key |-> Key(SectorSize, APFS_EXTENT_ITEM_KEY, SectorSize),
      flags |-> APFS_EXTENT_FLAG_TREE_BLOCK, skinny |-> FALSE],
     [key |-> Key(SectorSize, APFS_METADATA_ITEM_KEY, 1), flags |-> APFS_EXTENT_FLAG_DATA,
      skinny |-> TRUE],
     [key |-> Key(SectorSize, APFS_EXTENT_ITEM_KEY, SectorSize + 1),
      flags |-> APFS_EXTENT_FLAG_DATA, skinny |-> FALSE],
     [key |-> Key(SectorSize, APFS_EXTENT_ITEM_KEY, SectorSize),
      flags |-> APFS_EXTENT_FLAG_DATA + APFS_BLOCK_FLAG_FULL_BACKREF, skinny |-> FALSE]}

\* The size of an item that holds exactly its header and its references.
ExactSize(h, irefs) ==
    SizeofExtentItem
    + (IF HasFlag(h.flags, APFS_EXTENT_FLAG_TREE_BLOCK) /\ h.key.type # APFS_METADATA_ITEM_KEY
       THEN SizeofTreeBlockInfo ELSE 0)
    + RefBytes(irefs)

ExtentItem(h, irefs, size, refs, generation, level) ==
    [kind |-> "extent", key |-> h.key, skinny |-> h.skinny, flags |-> h.flags, size |-> size,
     refs |-> refs, generation |-> generation, level |-> level, irefs |-> irefs]

\* Extent items drawn: every list of references under every passing header
\* with every refs value, in an item of the exact size, one byte longer and
\* one byte shorter; and items with a defect of the header, the generation,
\* the level or the size.
ExtentInputs ==
    {ExtentItem(h, irefs, ExactSize(h, irefs) + d, refs, SuperGeneration, 0)
       : h \in ExtentHeads, irefs \in RefSeqs, d \in {-1, 0, 1},
         refs \in (0 .. 2 * MaxRefs + 1) \cup {-1}}
    \cup {ExtentItem(h, irefs, ExactSize(h, irefs), 1, SuperGeneration, 0)
            : h \in BadExtentHeads, irefs \in {<<>>, <<InlineRef(APFS_TREE_BLOCK_REF_KEY, 0, 0, 0)>>}}
    \cup {ExtentItem(h, <<>>, ExactSize(h, <<>>), 1, g, l)
            : h \in ExtentHeads, g \in {SuperGeneration + 1, SuperGeneration + 2, -1},
              l \in {0, APFS_MAX_LEVEL}}
    \cup {ExtentItem(h, <<>>, SizeofExtentItem - 1, 1, SuperGeneration, 0) : h \in ExtentHeads}

InitExtent ==
    /\ CodecIdle
    /\ BufIdle
    /\ DefragIdle
    /\ eb \in ExtentInputs
    /\ pc = "call"
    /\ result = 0
    /\ slot = 0
    /\ prev_key = ZeroKey
    /\ check_item_data = FALSE
    /\ accesses = {}
    /\ diag = <<>>

\* A call of check_extent_item on the item of slot 0.
CheckExtentItem ==
    /\ pc = "call"
    /\ eb.kind = "extent"
    /\ LET v == check_extent_item(eb, eb.key, eb.skinny, 0)
       IN  /\ result' = v.ret
           /\ diag' = v.diag
    /\ pc' = "done"
    /\ UNCHANGED <<eb, slot, prev_key, check_item_data, accesses>>
    /\ UNCHANGED <<codecVars, bufVars, defragVars>>

SpecExtent == InitExtent /\ [][CheckExtentItem]_vars

(***************************************************************************)
(* Buffer I/O (apfs_buf.c).  One call of apfs_buf_submit on a buffer       *)
(* fresh from apfs_buf_alloc.  The caller runs apfs_buf_submit and         *)
(* apfs_buf_ioapply step by step; each bio handed to submit_bio completes  *)
(* at any later time, and its apfs_buf_bio_end_io runs step by step next   *)
(* to the caller and to the end_io of the other bios.  Every access to     *)
(* bp is a step of its own: the atomic operations on io_remaining and      *)
(* io_errors, and the plain loads and stores of bp->error and              *)
(* bp->io_errors.  The length of the buffer is counted in pages.           *)
(***************************************************************************)
EIO == 5
ENOSPC == 28

\* Most pages of a buffer, and so most bios of one call.
MaxPages == 2

\* blk_status_to_errno(bio->bi_status): success, BLK_STS_IOERR, BLK_STS_NOSPC
BioErrors == {0, -EIO, -ENOSPC}

\* struct bio as the model follows it: where its end_io stands, the errno
\* of its status, the value of bp->io_errors its end_io loaded, and whether
\* its end_io called complete().
Bio(at, error) == [pc |-> at, error |-> error, io_errors |-> 0, completed |-> FALSE]

\* apfs_buf_alloc and apfs_buf_init: io_wait initialized, nothing signalled;
\* error, io_errors and io_remaining hold what kmalloc left there.
InitBuf ==
    /\ CodecIdle
    /\ CheckerIdle
    /\ DefragIdle
    /\ bp \in [error : {0, -EIO}, io_errors : {0, -EIO}, io_remaining : {0, 7},
               io_wait : {0}]
    /\ bios = <<>>
    /\ submit \in [pc : {"apfs_buf_submit"}, wait : BOOLEAN, size : 0 .. MaxPages,
                   no_pages : {FALSE}, ret : {0}]

NoChecks == UNCHANGED <<codecVars, checkerVars, defragVars>>

apfs_buf_submit_without_own_count ==
    /\ submit.pc = "apfs_buf_submit"
    /\ bp' = [bp EXCEPT !.error = 0, !.io_errors = 0, !.io_remaining = 0]
    /\ submit' = [submit EXCEPT !.pc = "next_chunk"]
    /\ UNCHANGED bios
    /\ NoChecks

\* apfs_buf_submit, lines 218-221: clear the errors, take the caller's count.
apfs_buf_submit ==
    /\ submit.pc = "apfs_buf_submit"
    /\ bp' = [bp EXCEPT !.error = 0, !.io_errors = 0, !.io_remaining = 1]
    /\ submit' = [submit EXCEPT !.pc = "next_chunk"]
    /\ UNCHANGED bios
    /\ NoChecks

\* apfs_buf_ioapply, lines 65-92: atomic_inc, bio_alloc, and the loop that
\* adds pages: it adds n of the pages left, all of them, or fewer when
\* bio_max_segs or bio_add_page stops it, or none.
next_chunk ==
    /\ submit.pc = "next_chunk"
    /\ bp' = [bp EXCEPT !.io_remaining = @ + 1]
    /\ \E n \in 0 .. submit.size :
         submit' = [submit EXCEPT !.size = @ - n,
                                  !.pc = IF n > 0 THEN "submit_bio" ELSE "no_pages"]
    /\ UNCHANGED bios
    /\ NoChecks

\* (submit.no_pages records that the branch of lines 98-106 was taken.)
\* lines 94-97: submit_bio, then the next chunk while bytes are left
submit_bio ==
    /\ submit.pc = "submit_bio"
    /\ bios' = Append(bios, Bio("in_flight", 0))
    /\ submit' = [submit EXCEPT !.pc = IF submit.size > 0 THEN "next_chunk" ELSE "wait"]
    /\ UNCHANGED bp
    /\ NoChecks

\* line 103: the bio holds no page: atomic_dec
no_pages_dec ==
    /\ submit.pc = "no_pages"
    /\ bp' = [bp EXCEPT !.io_remaining = @ - 1]
    /\ submit' = [submit EXCEPT !.pc = "no_pages_error", !.no_pages = TRUE]
    /\ UNCHANGED bios
    /\ NoChecks

\* line 104: bp->error = -EIO
no_pages_error ==
    /\ submit.pc = "no_pages_error"
    /\ bp' = [bp EXCEPT !.error = -EIO]
    /\ submit' = [submit EXCEPT !.pc = "wait"]
    /\ UNCHANGED bios
    /\ NoChecks

\* lines 225-226: wait_for_completion blocks until io_wait was signalled
\* and takes the signal; without wait the caller goes on.
wait_for_completion ==
    /\ submit.pc = "wait"
    /\ submit.wait => bp.io_wait > 0
    /\ bp' = IF submit.wait THEN [bp EXCEPT !.io_wait = @ - 1] ELSE bp
    /\ submit' = [submit EXCEPT !.pc = "return"]
    /\ UNCHANGED bios
    /\ NoChecks

\* line 228: return bp->error
return_error ==
    /\ submit.pc = "return"
    /\ submit' = [submit EXCEPT !.pc = "returned", !.ret = bp.error]
    /\ UNCHANGED <<bp, bios>>
    /\ NoChecks

\* apfs_buf_bio_end_io, lines 29-33: the device completes bio i with a
\* status; an error is recorded unless one is recorded already.
end_io_status(i) ==
    /\ bios[i].pc = "in_flight"
    /\ \E error \in BioErrors :
         /\ bios' = [bios EXCEPT ![i].pc = "atomic_dec", ![i].error = error]
         /\ bp' = IF error # 0 /\ bp.io_errors = 0 THEN [bp EXCEPT !.io_errors = error]
                  ELSE bp
    /\ UNCHANGED submit
    /\ NoChecks

\* line 35: atomic_dec(&bp->io_remaining)
end_io_dec(i) ==
    /\ bios[i].pc = "atomic_dec"
    /\ bp' = [bp EXCEPT !.io_remaining = @ - 1]
    /\ bios' = [bios EXCEPT ![i].pc = "atomic_read"]
    /\ UNCHANGED submit
    /\ NoChecks

\* line 36: if (atomic_read(&bp->io_remaining) == 1)
end_io_read(i) ==
    /\ bios[i].pc = "atomic_read"
    /\ bios' = [bios EXCEPT ![i].pc = IF bp.io_remaining = 1 THEN "load" ELSE "done"]
    /\ UNCHANGED <<bp, submit>>
    /\ NoChecks

\* line 40, right side: load bp->io_errors
end_io_load(i) ==
    /\ bios[i].pc = "load"
    /\ bios' = [bios EXCEPT ![i].pc = "store", ![i].io_errors = bp.io_errors]
    /\ UNCHANGED <<bp, submit>>
    /\ NoChecks

\* line 40, left side: store to bp->error
end_io_store(i) ==
    /\ bios[i].pc = "store"
    /\ bp' = [bp EXCEPT !.error = bios[i].io_errors]
    /\ bios' = [bios EXCEPT ![i].pc = "complete"]
    /\ UNCHANGED submit
    /\ NoChecks

\* line 41: complete(&bp->io_wait)
end_io_complete(i) ==
    /\ bios[i].pc = "complete"
    /\ bp' = [bp EXCEPT !.io_wait = @ + 1]
    /\ bios' = [bios EXCEPT ![i].pc = "done", ![i].completed = TRUE]
    /\ UNCHANGED submit
    /\ NoChecks

apfs_buf_ioapply == next_chunk \/ submit_bio \/ no_pages_dec \/ no_pages_error

apfs_buf_bio_end_io ==
    \E i \in 1 .. Len(bios) :
        \/ end_io_status(i)
        \/ end_io_dec(i)
        \/ end_io_read(i)
        \/ end_io_load(i)
        \/ end_io_store(i)
        \/ end_io_complete(i)

NextBuf ==
    \/ apfs_buf_submit
    \/ apfs_buf_ioapply
    \/ wait_for_completion
    \/ return_error
    \/ apfs_buf_bio_end_io

SpecBuf == InitBuf /\ [][NextBuf]_vars

\* The same with progress: the caller runs on while it is not blocked, and
\* every bio handed to submit_bio completes and its end_io runs to its end.
SpecBufFair ==
    /\ SpecBuf
    /\ WF_vars(apfs_buf_submit \/ apfs_buf_ioapply \/ wait_for_completion \/ return_error)
    /\ WF_vars(apfs_buf_bio_end_io)

----------------------------------------------------------------------------
(* check_extent_data_item on its own: one file extent item at slot 0 of a  *)
(* leaf of a subvolume tree, with every field of a regular or preallocated *)
(* extent aligned or off by one, the item one byte short, exact and one    *)
(* byte long, and a key offset and num_bytes whose sum wraps.              *)

FileExtentFields ==
    {[kind |-> "fe", type |-> t, compression |-> 0, encryption |-> 0,
      ram_bytes |-> rb, disk_bytenr |-> db, disk_num_bytes |-> dn,
      offset |-> fo, num_bytes |-> nb]
       : t \in 0 .. APFS_NR_FILE_EXTENT_TYPES,
         rb \in {SectorSize, SectorSize + 1}, db \in {SectorSize, SectorSize + 1},
         dn \in {SectorSize, SectorSize + 1}, fo \in {0, 1},
         nb \in {SectorSize, SectorSize + 1, -SectorSize}}

FileExtentInputs ==
    {[kind |-> "leaf", level |-> 0, nritems |-> 1, owner |-> APFS_FIRST_FREE_OBJECTID,
      reloc |-> FALSE, ptrs |-> <<>>,
      items |-> <<[key |-> Key(APFS_FIRST_FREE_OBJECTID, APFS_EXTENT_DATA_KEY, ko),
                   offset |-> W(APFS_LEAF_DATA_SIZE - (SizeofFileExtentItem + d)),
                   size |-> W(SizeofFileExtentItem + d), p |-> fi]>>]
       : fi \in FileExtentFields, d \in {-1, 0, 1},
         ko \in {0, SectorSize, SectorSize + 1, -SectorSize}}

InitFileExtent ==
    /\ CodecIdle
    /\ BufIdle
    /\ DefragIdle
    /\ eb \in FileExtentInputs
    /\ pc = "call"
    /\ result = 0
    /\ slot = 0
    /\ prev_key = ZeroKey
    /\ check_item_data = TRUE
    /\ accesses = {}
    /\ diag = <<>>

CheckExtentDataItem ==
    /\ pc = "call"
    /\ eb.kind = "leaf"
    /\ LET v == check_extent_data_item(eb, eb.items[1].key, 0, prev_key)
       IN  /\ result' = v.ret
           /\ diag' = v.diag
           /\ accesses' = Tagged(v, 0)
    /\ pc' = "done"
    /\ UNCHANGED <<eb, slot, prev_key, check_item_data>>
    /\ UNCHANGED <<codecVars, bufVars, defragVars>>

SpecFileExtent == InitFileExtent /\ [][CheckExtentDataItem]_vars

----------------------------------------------------------------------------
(* check_inode_key on its own, as its two callers reach it: on the key of  *)
(* an inode item (check_inode_item), and on the location key of an entry   *)
(* of a DIR_ITEM, DIR_INDEX or XATTR_ITEM item when the location's type is *)
(* INODE_ITEM or 0 (check_dir_item).                                       *)

\* Objectids around the limits of the free range and the two sentinels.
InodeKeyObjectids ==
    {0, APFS_ROOT_TREE_DIR_OBJECTID, APFS_ROOT_TREE_DIR_OBJECTID + 1,
     APFS_FIRST_FREE_OBJECTID - 1, APFS_FIRST_FREE_OBJECTID, APFS_FIRST_FREE_OBJECTID + 1,
     APFS_LAST_FREE_OBJECTID, APFS_LAST_FREE_OBJECTID + 1, APFS_FREE_INO_OBJECTID, -1}

\* The leaf holds the item at slot 0; checked is the key handed to
\* check_inode_key.
InodeKeyInput(item_key, checked) ==
    [kind |-> "leaf", level |-> 0, nritems |-> 1, owner |-> APFS_FS_TREE_OBJECTID,
     reloc |-> FALSE, ptrs |-> <<>>, checked |-> checked,
     items |-> <<[key |-> item_key, offset |-> W(0), size |-> W(0), p |-> <<>>]>>]

InodeKeyInputs ==
    {InodeKeyInput(Key(o, APFS_INODE_ITEM_KEY, off), Key(o, APFS_INODE_ITEM_KEY, off))
       : o \in InodeKeyObjectids, off \in {0, 1, -1}}
    \cup {InodeKeyInput(Key(APFS_FIRST_FREE_OBJECTID, t, 7), Key(o, lt, off))
            : t \in {APFS_DIR_ITEM_KEY, APFS_DIR_INDEX_KEY, APFS_XATTR_ITEM_KEY},
              o \in InodeKeyObjectids, lt \in {0, APFS_INODE_ITEM_KEY}, off \in {0, 1, -1}}

InitInodeKey ==
    /\ CodecIdle
    /\ BufIdle
    /\ DefragIdle
    /\ eb \in InodeKeyInputs
    /\ pc = "call"
    /\ result = 0
    /\ slot = 0
    /\ prev_key = ZeroKey
    /\ check_item_data = TRUE
    /\ accesses = {}
    /\ diag = <<>>

CheckInodeKey ==
    /\ pc = "call"
    /\ eb.kind = "leaf"
    /\ LET v == check_inode_key(eb, eb.checked, 0)
       IN  /\ result' = v.ret
           /\ diag' = v.diag
    /\ pc' = "done"
    /\ UNCHANGED <<eb, slot, prev_key, check_item_data, accesses>>
    /\ UNCHANGED <<codecVars, bufVars, defragVars>>

SpecInodeKey == InitInodeKey /\ [][CheckInodeKey]_vars

----------------------------------------------------------------------------
(* check_inode_item on its own: one inode item at slot 0 of a leaf of the  *)
(* fs tree, with every value of the file type field of the mode, three     *)
(* settings of the twelve bits below it and one bit above the mask, and a  *)
(* generation, link count and flags that pass or fail.                     *)

InodeModes ==
    {hi * (ValidModeMask + 1) + fmt * S_IFIFO + perm
       : hi \in {0, 1}, fmt \in 0 .. 15, perm \in {0, 511, S_IFIFO - 1}}

\* The end of the last field check_inode_item reads.
InodeItemEnd == apfs_inode_item.flags.at + apfs_inode_item.flags.w

InodeItemInputs ==
    {[kind |-> "leaf", level |-> 0, nritems |-> 1, owner |-> APFS_FS_TREE_OBJECTID,
      reloc |-> FALSE, ptrs |-> <<>>,
      items |-> <<[key |-> Key(APFS_FIRST_FREE_OBJECTID, APFS_INODE_ITEM_KEY, 0),
                   offset |-> W(APFS_LEAF_DATA_SIZE - InodeItemEnd),
                   size |-> W(InodeItemEnd),
                   p |-> [kind |-> "inode", generation |-> g, transid |-> 0, mode |-> m,
                          nlink |-> n, flags |-> f]]>>]
       : g \in {1, SuperGeneration + 2}, m \in InodeModes, n \in {1, 2},
         f \in {0, InodeFlagLimit}}

InitInodeItem ==
    /\ CodecIdle
    /\ BufIdle
    /\ DefragIdle
    /\ eb \in InodeItemInputs
    /\ pc = "call"
    /\ result = 0
    /\ slot = 0
    /\ prev_key = ZeroKey
    /\ check_item_data = TRUE
    /\ accesses = {}
    /\ diag = <<>>

CheckInodeItem ==
    /\ pc = "call"
    /\ eb.kind = "leaf"
    /\ LET v == check_inode_item(eb, eb.items[1].key, 0)
       IN  /\ result' = v.ret
           /\ diag' = v.diag
           /\ accesses' = Tagged(v, 0)
    /\ pc' = "done"
    /\ UNCHANGED <<eb, slot, prev_key, check_item_data>>
    /\ UNCHANGED <<codecVars, bufVars, defragVars>>

SpecInodeItem == InitInodeItem /\ [][CheckInodeItem]_vars

----------------------------------------------------------------------------
(* The validators that call check_prev_ino, each on its own: an item of    *)
(* one of the five key types at slot 0 of a leaf, or at slot 1 after an    *)
(* inode item, in a leaf of each owner, with the objectid of the inode     *)
(* item before it or the next one.  The keys are in order, as check_leaf   *)
(* has established before it calls a validator.                            *)

PrevInoKeys(objectid) ==
    {Key(objectid, APFS_INODE_REF_KEY, APFS_FIRST_FREE_OBJECTID),
     Key(objectid, APFS_XATTR_ITEM_KEY, 7),
     Key(objectid, APFS_DIR_ITEM_KEY, 7),
     Key(objectid, APFS_DIR_INDEX_KEY, 2),
     Key(objectid, APFS_EXTENT_DATA_KEY, 0)}

\* Of each key type payloads its validator accepts and payloads it rejects,
\* in an item of the size it accepts.
PrevInoItems(key, e) ==
    LET size == IF key.type = APFS_INODE_REF_KEY THEN W(SizeofInodeRef + 1)
                ELSE IF key.type = APFS_EXTENT_DATA_KEY THEN W(SizeofFileExtentItem)
                ELSE W(SizeofDirItem + 1)
        payloads ==
            IF key.type \in {APFS_DIR_ITEM_KEY, APFS_DIR_INDEX_KEY}
            THEN {p \in Payloads(Key(0, APFS_DIR_ITEM_KEY, 0)) :
                    /\ p.oob = 0
                    /\ p.entries[1].location = Key(APFS_FIRST_FREE_OBJECTID, APFS_INODE_ITEM_KEY, 0)}
            ELSE RelaxedPayloads(key)
    IN  {[key |-> key, offset |-> U32Sub(e, size), size |-> size, p |-> pl] : pl \in payloads}

\* The inode item in front of the item at slot 1.
PrevInoInode ==
    [key |-> Key(APFS_FIRST_FREE_OBJECTID, APFS_INODE_ITEM_KEY, 0),
     offset |-> W(APFS_LEAF_DATA_SIZE - 160), size |-> W(160),
     p |-> [kind |-> "inode", generation |-> 1, transid |-> 0, mode |-> S_IFDIR, nlink |-> 1,
            flags |-> 0]]

PrevInoInputs ==
    UNION {UNION {{[kind |-> "leaf", level |-> 0, nritems |-> 1, owner |-> ow, reloc |-> FALSE,
                    ptrs |-> <<>>, items |-> <<it>>]
                     : it \in PrevInoItems(k, W(APFS_LEAF_DATA_SIZE))}
                  \cup {[kind |-> "leaf", level |-> 0, nritems |-> 2, owner |-> ow,
                         reloc |-> FALSE, ptrs |-> <<>>, items |-> <<PrevInoInode, it>>]
                          : it \in PrevInoItems(k, PrevInoInode.offset)}
                  : k \in PrevInoKeys(APFS_FIRST_FREE_OBJECTID)
                          \cup PrevInoKeys(APFS_FIRST_FREE_OBJECTID + 1)}
           : ow \in Owners \cup {APFS_TREE_RELOC_OBJECTID, APFS_FIRST_FREE_OBJECTID + 1}}

InitPrevIno ==
    /\ CodecIdle
    /\ BufIdle
    /\ DefragIdle
    /\ eb \in PrevInoInputs
    /\ pc = "call"
    /\ result = 0
    /\ slot = Len(eb.items) - 1
    /\ prev_key = IF Len(eb.items) = 1 THEN ZeroKey ELSE eb.items[1].key
    /\ check_item_data = TRUE
    /\ accesses = {}
    /\ diag = <<>>

CheckLeafItem ==
    /\ pc = "call"
    /\ eb.kind = "leaf"
    /\ LET v == check_leaf_item(eb, eb.items[slot + 1].key, slot, prev_key)
       IN  /\ result' = v.ret
           /\ diag' = v.diag
           /\ accesses' = Tagged(v, slot)
    /\ pc' = "done"
    /\ UNCHANGED <<eb, slot, prev_key, check_item_data>>
    /\ UNCHANGED <<codecVars, bufVars, defragVars>>

SpecPrevIno == InitPrevIno /\ [][CheckLeafItem]_vars

----------------------------------------------------------------------------
(* apfs_defrag_leaves (tree-defrag.c).  root holds the fields of struct    *)
(* apfs_root the function reads and writes; defrag is the frame of the     *)
(* call: its position, the local key and ret, and the label the jump to    *)
(* out was made from.  The functions it calls (apfs_alloc_path,            *)
(* apfs_search_forward, apfs_search_slot, apfs_realloc_node,               *)
(* apfs_find_next_key) are outside this file: each step draws one of the   *)
(* outcomes its caller distinguishes.  The function is called again after  *)
(* it returns, as its caller does while it returns -EAGAIN and on later    *)
(* defrag runs.                                                            *)

EAGAIN == 11
ENOMEM == 12

\* Number of calls of apfs_defrag_leaves on the root.
MaxCalls == 3

\* Keys of the tree under defrag.
DefragKeys ==
    {Key(o, t, f) : o \in {APFS_FIRST_FREE_OBJECTID, APFS_FIRST_FREE_OBJECTID + 1},
                    t \in {APFS_INODE_ITEM_KEY, APFS_EXTENT_DATA_KEY}, f \in {0, SectorSize}}

\* The frame at entry: struct apfs_key key = {}, ret = 0.
DefragFrame(calls) ==
    [pc |-> "apfs_defrag_leaves", key |-> ZeroKey, ret |-> 0, from |-> "", calls |-> calls]

InitDefrag ==
    /\ CodecIdle
    /\ CheckerIdle
    /\ BufIdle
    /\ root \in [extent_root : BOOLEAN, shareable : BOOLEAN, level : {0, 1},
                 last_key : {k \in DefragKeys : k.offset = SectorSize},
                 defrag_progress : {ZeroKey}, defrag_max : {ZeroKey}]
    /\ defrag = DefragFrame(1)

NoDefrag == UNCHANGED <<codecVars, checkerVars, bufVars>>

\* goto out from the step named by its position
GotoOut(r) == defrag' = [defrag EXCEPT !.pc = "out", !.ret = r, !.from = defrag.pc]

\* lines 30-39: the extent root and roots that are not shareable are skipped
defrag_entry ==
    /\ defrag # <<>>
    /\ defrag.pc = "apfs_defrag_leaves"
    /\ IF root.extent_root \/ ~root.shareable
       THEN GotoOut(defrag.ret)
       ELSE defrag' = [defrag EXCEPT !.pc = "apfs_alloc_path"]
    /\ UNCHANGED root
    /\ NoDefrag

\* lines 41-43 when apfs_alloc_path returns NULL: return -ENOMEM
alloc_path_failure == defrag' = [defrag EXCEPT !.pc = "returned", !.ret = -ENOMEM,
                                               !.from = defrag.pc]

\* lines 41-48: apfs_alloc_path, then a root that is a leaf is skipped
defrag_alloc_path ==
    /\ defrag # <<>>
    /\ defrag.pc = "apfs_alloc_path"
    /\ \E path \in BOOLEAN :
         IF ~path THEN alloc_path_failure
         ELSE IF root.level = 0 THEN GotoOut(defrag.ret)
         ELSE defrag' = [defrag EXCEPT !.pc = "start_key"]
    /\ UNCHANGED root
    /\ NoDefrag

\* lines 50-67: a fresh run records the last key of the root node in
\* defrag_max and starts from the zero key; a resumed run starts from
\* defrag_progress
defrag_start_key ==
    /\ defrag # <<>>
    /\ defrag.pc = "start_key"
    /\ IF root.defrag_progress.objectid = 0
       THEN /\ root' = [root EXCEPT !.defrag_max = root.last_key]
            /\ defrag' = [defrag EXCEPT !.pc = "apfs_search_forward", !.key = ZeroKey]
       ELSE /\ defrag' = [defrag EXCEPT !.pc = "apfs_search_forward",
                                        !.key = root.defrag_progress]
            /\ UNCHANGED root
    /\ NoDefrag

\* lines 69-76: apfs_search_forward fails, finds nothing, or finds a key at
\* or after the one it was given and stores it in key
defrag_search_forward ==
    /\ defrag # <<>>
    /\ defrag.pc = "apfs_search_forward"
    /\ \/ GotoOut(-EIO)
       \/ GotoOut(0)
       \/ \E k \in DefragKeys :
            /\ apfs_comp_cpu_keys(k, defrag.key) >= 0
            /\ defrag' = [defrag EXCEPT !.pc = "apfs_search_slot", !.key = k]
    /\ UNCHANGED root
    /\ NoDefrag

\* lines 82-92: apfs_search_slot with lowest_level 1 fails, leaves no node
\* at level 1, or leaves one
defrag_search_slot ==
    /\ defrag # <<>>
    /\ defrag.pc = "apfs_search_slot"
    /\ \/ GotoOut(-EIO)
       \/ GotoOut(0)
       \/ defrag' = [defrag EXCEPT !.pc = "apfs_realloc_node"]
    /\ UNCHANGED root
    /\ NoDefrag

\* lines 99-106: apfs_realloc_node returns 0 or an error; WARN_ON says the
\* error is never -EAGAIN
defrag_realloc_node ==
    /\ defrag # <<>>
    /\ defrag.pc = "apfs_realloc_node"
    /\ \E r \in {0, -EIO, -ENOSPC} :
         IF r # 0 THEN GotoOut(r)
         ELSE defrag' = [defrag EXCEPT !.pc = "apfs_find_next_key", !.ret = 0]
    /\ UNCHANGED root
    /\ NoDefrag

\* lines 116-122: apfs_find_next_key stores a key after the node in key and
\* returns 0, or returns non-zero
defrag_find_next_key ==
    /\ defrag # <<>>
    /\ defrag.pc = "apfs_find_next_key"
    /\ \/ \E k \in DefragKeys :
            /\ apfs_comp_cpu_keys(k, defrag.key) > 0
            /\ root' = [root EXCEPT !.defrag_progress = k]
            /\ defrag' = [defrag EXCEPT !.pc = "out", !.key = k, !.ret = -EAGAIN,
                                        !.from = defrag.pc]
       \/ /\ GotoOut(defrag.ret)
          /\ UNCHANGED root
    /\ NoDefrag

\* lines 125-133: -EAGAIN is kept while a field of defrag_max is above the
\* same field of defrag_progress
defrag_again(r) ==
    IF r # -EAGAIN THEN r
    ELSE IF U64Lt(root.defrag_progress.objectid, root.defrag_max.objectid) THEN r
    ELSE IF root.defrag_max.type > root.defrag_progress.type THEN r
    ELSE IF U64Lt(root.defrag_progress.offset, root.defrag_max.offset) THEN r
    ELSE 0

\* lines 123-139: out and done
defrag_out ==
    /\ defrag # <<>>
    /\ defrag.pc = "out"
    /\ LET r == defrag_again(defrag.ret)
       IN  /\ defrag' = [defrag EXCEPT !.pc = "returned", !.ret = r]
           /\ root' = IF r # -EAGAIN THEN [root EXCEPT !.defrag_progress = ZeroKey]
                      ELSE root
    /\ NoDefrag

\* The next call on the same root.
defrag_call ==
    /\ defrag # <<>>
    /\ defrag.pc = "returned"
    /\ defrag.calls < MaxCalls
    /\ defrag' = DefragFrame(defrag.calls + 1)
    /\ UNCHANGED root
    /\ NoDefrag

apfs_defrag_leaves ==
    \/ defrag_entry
    \/ defrag_alloc_path
    \/ defrag_start_key
    \/ defrag_search_forward
    \/ defrag_search_slot
    \/ defrag_realloc_node
    \/ defrag_find_next_key
    \/ defrag_out

NextDefrag == apfs_defrag_leaves \/ defrag_call

SpecDefrag == InitDefrag /\ [][NextDefrag]_vars

----------------------------------------------------------------------------
(* Accessor properties.                                                    *)

Straddles(off, size) == get_eb_offset_in_page(off) + size > PAGE_SIZE

\* C1: apfs_get_W at offset o immediately after apfs_set_W(o, v) returns v, for
\* every width and every in-bounds offset, page-straddling offsets included.
C1_RoundTrip ==
    lastop.kind = "set" => ret = lastop.val

\* A 64-bit value with differing bytes was stored across the page boundary
\* and read back.
C1_Witness ==
    /\ lastop.kind = "set"
    /\ lastop.size = 8
    /\ Straddles(lastop.off, lastop.size)
    /\ lastop.val = Mixed(8)
    /\ ret = Mixed(8)

\* C2: a sequence of gets and sets run through the token variants with one
\* token returns the same values and leaves the same bytes as the same
\* sequence run through the plain accessors.
C2_TokenEquivalence ==
    /\ tpages = pages
    /\ tret = ret

\* After a straddling access moved the token to the second page, a further
\* access was served from the token's cached page and read a non-zero value.
C2_Witness ==
    /\ nops = MaxOps
    /\ lastop.kind = "get"
    /\ lastop.hit
    /\ token.offset = PAGE_SIZE
    /\ tret # 0
    /\ tret = ret

----------------------------------------------------------------------------
(* Tree-checker properties.                                                *)

\* Slot at (from 0) of a leaf breaks the key order: its key is not greater
\* than the key before it, the all-zero key for slot 0.
BadKeyOrder(leaf, at) ==
    apfs_comp_cpu_keys(IF at = 0 THEN ZeroKey ELSE leaf.items[at].key,
                       leaf.items[at + 1].key) >= 0

\* C3: a level-0 leaf with at least one item, one of whose keys is not
\* strictly greater than its predecessor, is rejected with -EUCLEAN.
C3_LeafKeyOrderRejected ==
    (/\ pc = "done"
     /\ eb.kind = "leaf"
     /\ eb.level = 0
     /\ eb.nritems >= 1
     /\ \E at \in 0 .. Len(eb.items) - 1 : BadKeyOrder(eb, at))
    => result = -EUCLEAN

\* The trees that must never be empty.
NeverEmpty ==
    {APFS_ROOT_TREE_OBJECTID, APFS_CHUNK_TREE_OBJECTID, APFS_EXTENT_TREE_OBJECTID,
     APFS_DEV_TREE_OBJECTID, APFS_FS_TREE_OBJECTID, APFS_DATA_RELOC_TREE_OBJECTID}

\* C4: an empty level-0 leaf is rejected exactly when its relocation flag
\* is clear and its owner is 0 or one of the trees that must never be
\* empty; every other empty leaf is accepted.
C4_EmptyLeafRule ==
    (pc = "done" /\ eb.kind = "leaf" /\ eb.level = 0 /\ eb.nritems = 0)
    => IF ~eb.reloc /\ (eb.owner = 0 \/ eb.owner \in NeverEmpty)
       THEN result = -EUCLEAN
       ELSE result = 0

\* The checks of pointer at (from 0) of a node, of at most n - 1 of them.
PtrBad(node, at) ==
    node.ptrs[at + 1].blockptr = 0 \/ ~IS_ALIGNED(node.ptrs[at + 1].blockptr, SectorSize)

PairBad(node, at) ==
    apfs_comp_cpu_keys(node.ptrs[at + 1].key, node.ptrs[at + 2].key) >= 0

\* C5: a node whose level is outside 1 .. APFS_MAX_LEVEL - 1, or that has
\* no pointers, or that has an adjacent pair of keys out of order, is
\* rejected with -EUCLEAN; when the first failing check is the key order of
\* pointers i and i + 1, the diagnostic names slot i.
C5_NodeRejected ==
    (pc = "done" /\ eb.kind = "node")
    => /\ (\/ eb.level <= 0
           \/ eb.level >= APFS_MAX_LEVEL
           \/ eb.nritems = 0
           \/ \E at \in 0 .. eb.nritems - 2 : PairBad(eb, at))
          => result = -EUCLEAN
       /\ \A at \in 0 .. eb.nritems - 2 :
            (/\ eb.level > 0
             /\ eb.level < APFS_MAX_LEVEL
             /\ PairBad(eb, at)
             /\ ~PtrBad(eb, at)
             /\ \A b \in 0 .. at - 1 : ~PtrBad(eb, b) /\ ~PairBad(eb, b))
            => diag = <<Msg("generic_err", at)>>

\* C6: in a node that passes, every child pointer, the last one and the
\* only one of a one-pointer node included, is non-zero and aligned to
\* the sector size.
C6_EveryPointerChecked ==
    (pc = "done" /\ eb.kind = "node" /\ result = 0)
    => \A at \in 0 .. eb.nritems - 1 : ~PtrBad(eb, at)

\* C7: in a leaf that passes, the payloads tile the data area from its end
\* downwards with no gap and no overlap, for every 32-bit offset and size:
\* offset + size of slot 0 is the size of the data area, and offset + size
\* of each later slot is the offset of the slot before it.
C7_PayloadsTile ==
    (pc = "done" /\ eb.kind = "leaf" /\ result = 0 /\ eb.level = 0)
    => \A at \in 0 .. Len(eb.items) - 1 :
         WAdd(eb.items[at + 1].offset, eb.items[at + 1].size)
           = (IF at = 0 THEN W(APFS_LEAF_DATA_SIZE) ELSE eb.items[at].offset)

\* C8: in a leaf that passes, no payload overlaps the table of item
\* headers: a non-empty payload of slot i starts at or after the end of
\* slot i's header.
C8_PayloadClearOfHeaders ==
    (pc = "done" /\ eb.kind = "leaf" /\ result = 0 /\ eb.level = 0)
    => \A at \in 0 .. Len(eb.items) - 1 :
         \/ eb.items[at + 1].size = W(0)
         \/ WLe(W((at + 1) * SizeofItem), eb.items[at + 1].offset)

\* C9: no field read by an item validator leaves the block: every range
\* read ends at or before the block size.
C9_ReadsInsideBlock == \A a \in accesses : WLe(a.hi, W(NodeSize))

\* C10: the validator of slot s reads payload bytes only inside the range
\* [item start, item start + item size) recorded for slot s.
C10_ReadsInsideItem ==
    \A a \in accesses :
      /\ WLe(apfs_item_ptr_offset(eb, a.slot), a.lo)
      /\ WLe(a.hi, WAdd(apfs_item_ptr_offset(eb, a.slot), apfs_item_size_nr(eb, a.slot)))

\* C11: every path on which the leaf walk or an item validator returns
\* -EUCLEAN has emitted at least one diagnostic before it returns.
C11_NoSilentCorruption == (pc = "done" /\ result = -EUCLEAN) => Len(diag) >= 1

\* The structural checks of slot at (from 0) pass: key order, item end
\* equal to the expected end, item end inside the data area.
StructOK(leaf, at) ==
    /\ ~BadKeyOrder(leaf, at)
    /\ apfs_item_end_nr(leaf, at)
         = (IF at = 0 THEN W(APFS_LEAF_DATA_SIZE) ELSE leaf.items[at].offset)
    /\ WLe(apfs_item_end_nr(leaf, at), W(APFS_LEAF_DATA_SIZE))

\* Every check of slot at passes, the item validator included in full mode.
SlotOK(leaf, at, item_data) ==
    /\ StructOK(leaf, at)
    /\ item_data =>
         check_leaf_item(leaf, leaf.items[at + 1].key, at,
                         IF at = 0 THEN ZeroKey ELSE leaf.items[at].key).ret = 0

\* C12: the slot loop stops at the lowest slot at which a check fails:
\* every earlier slot passes every check, the failing slot's validator is
\* not run when one of its structural checks fails, no later slot is read
\* or validated, and at most one diagnostic is emitted; a leaf is accepted
\* only when every slot passes.
C12_FailFast ==
    (pc = "done" /\ eb.kind = "leaf" /\ Len(eb.items) >= 1)
    => IF result = 0
       THEN /\ slot = eb.nritems
            /\ Len(eb.items) = eb.nritems
            /\ \A at \in 0 .. eb.nritems - 1 : SlotOK(eb, at, check_item_data)
       ELSE /\ Len(eb.items) = slot + 1
            /\ \A at \in 0 .. slot - 1 : SlotOK(eb, at, check_item_data)
            /\ ~SlotOK(eb, slot, check_item_data)
            /\ ~StructOK(eb, slot) => \A a \in accesses : a.slot # slot
            /\ \A a \in accesses : a.slot <= slot
            /\ Len(diag) <= 1

\* A full-mode walk that passed slot 0 and failed in the validator of
\* slot 1, after that slot's structural checks passed.
C12_Witness ==
    /\ pc = "done"
    /\ result = -EUCLEAN
    /\ check_item_data
    /\ slot = 1
    /\ Len(eb.items) = 2
    /\ StructOK(eb, 1)
    /\ \E a \in accesses : a.slot = 1

\* The end of the file range of an extent item, taken in unbounded
\* arithmetic, lies beyond the file offset off.
EndExceeds(key, extent, off) ==
    IF extent.type = APFS_FILE_EXTENT_INLINE
    THEN \/ U64Carry(key.offset, extent.ram_bytes)
         \/ U64Carry(key.offset + extent.ram_bytes, SectorSize - 1)
         \/ U64Lt(off, ALIGN(key.offset + extent.ram_bytes, SectorSize))
    ELSE \/ U64Carry(key.offset, extent.num_bytes)
         \/ U64Lt(off, key.offset + extent.num_bytes)

\* Slot at holds a regular or preallocated extent that passes every check
\* of its own fields.
OwnExtentValid(leaf, at) ==
    LET key == leaf.items[at + 1].key
        fi == leaf.items[at + 1].p
    IN  /\ IS_ALIGNED(key.offset, SectorSize)
        /\ apfs_item_size_nr(leaf, at) = W(SizeofFileExtentItem)
        /\ fi.type # APFS_FILE_EXTENT_INLINE
        /\ fi.type < APFS_NR_FILE_EXTENT_TYPES
        /\ fi.compression < APFS_NR_COMPRESS_TYPES
        /\ fi.encryption = 0
        /\ FirstUnaligned(fi) = ""
        /\ ~U64Carry(fi.num_bytes, key.offset)

\* C13: when slots s - 1 and s hold file extents of the same inode, slot s
\* is valid on its own, and the end of the first extent (key offset +
\* num_bytes, or key offset + ram_bytes rounded up to the sector size for
\* an inline extent) exceeds the key offset of the second, the walk ends at
\* slot s with -EUCLEAN and one diagnostic naming slot s - 1.
C13_ExtentOverlapRejected ==
    LET at == Len(eb.items) - 1
    IN  (/\ eb.kind = "leaf"
         /\ check_item_data
         /\ at >= 1
         /\ eb.level = 0
         /\ StructOK(eb, at)
         /\ eb.items[at].key.type = APFS_EXTENT_DATA_KEY
         /\ eb.items[at + 1].key.type = APFS_EXTENT_DATA_KEY
         /\ eb.items[at].key.objectid = eb.items[at + 1].key.objectid
         /\ OwnExtentValid(eb, at)
         /\ EndExceeds(eb.items[at].key, eb.items[at].p, eb.items[at + 1].key.offset))
        => /\ pc = "done"
           /\ result = -EUCLEAN
           /\ slot = at
           /\ diag = <<Msg("file_extent_err", at - 1)>>

\* Every field of a chunk other than its stripe counts is valid.
ChunkOthersValid(c) ==
    /\ IS_ALIGNED(c.logical, SectorSize)
    /\ c.sector_size = SectorSize
    /\ c.length # 0
    /\ IS_ALIGNED(c.length, SectorSize)
    /\ ~U64Carry(c.logical, c.length)
    /\ c.stripe_len = APFS_STRIPE_LEN
    /\ c.type < 2 * APFS_BLOCK_GROUP_RAID6
    /\ (ProfileBits(c.type) = 0 \/ has_single_bit_set(ProfileBits(c.type)))
    /\ TypeBits(c.type) # 0
    /\ ~(HasFlag(c.type, APFS_BLOCK_GROUP_SYSTEM)
         /\ (HasFlag(c.type, APFS_BLOCK_GROUP_METADATA) \/ HasFlag(c.type, APFS_BLOCK_GROUP_DATA)))
    /\ (c.mixed \/ ~(HasFlag(c.type, APFS_BLOCK_GROUP_METADATA)
                     /\ HasFlag(c.type, APFS_BLOCK_GROUP_DATA)))

\* The stripe counts of a chunk break the table of profiles: RAID10 needs
\* sub_stripes = 2, RAID1 num_stripes = 2, RAID5 num_stripes >= 2, RAID6
\* num_stripes >= 3, DUP num_stripes = 2, no profile bit num_stripes = 1.
TableViolated(c) ==
    LET profile == ProfileBits(c.type)
    IN  \/ profile = APFS_BLOCK_GROUP_RAID10 /\ c.sub_stripes # 2
        \/ profile = APFS_BLOCK_GROUP_RAID1 /\ c.num_stripes # 2
        \/ profile = APFS_BLOCK_GROUP_RAID5 /\ ~(c.num_stripes >= 2)
        \/ profile = APFS_BLOCK_GROUP_RAID6 /\ ~(c.num_stripes >= 3)
        \/ profile = APFS_BLOCK_GROUP_DUP /\ c.num_stripes # 2
        \/ profile = 0 /\ c.num_stripes # 1

\* C14 as stated: with every other field valid, a chunk is rejected exactly
\* when its stripe counts violate the table (RAID10 sub_stripes = 2, RAID1
\* num_stripes = 2, RAID5 num_stripes >= 2, RAID6 num_stripes >= 3, DUP
\* num_stripes = 2, no profile bit num_stripes = 1).
C14_TableOnly ==
    (/\ pc = "done"
     /\ eb.kind = "chunk"
     /\ ChunkOthersValid(eb)
     /\ ~HasFlag(eb.type, APFS_BLOCK_GROUP_RAID0))
    => (result = -EUCLEAN <=> TableViolated(eb))

\* C14, amended: with every other field valid, a chunk is rejected exactly
\* when its stripe counts violate the table, or num_stripes is 0, or below
\* the copies of the profile, or equal to its parity count; a RAID1 chunk
\* with three stripes is rejected and one with two is accepted.
C14_ChunkStripes ==
    (pc = "done" /\ eb.kind = "chunk" /\ ChunkOthersValid(eb))
    => /\ result = -EUCLEAN
          <=> \/ TableViolated(eb)
              \/ eb.num_stripes = 0
              \/ eb.num_stripes < apfs_raid_array(eb.type).ncopies
              \/ /\ apfs_raid_array(eb.type).nparity # 0
                 /\ eb.num_stripes = apfs_raid_array(eb.type).nparity
       /\ result \in {0, -EUCLEAN}
       /\ HasFlag(eb.type, APFS_BLOCK_GROUP_RAID1) /\ eb.num_stripes = 3 => result = -EUCLEAN
       /\ HasFlag(eb.type, APFS_BLOCK_GROUP_RAID1) /\ eb.num_stripes = 2 => result = 0

\* A RAID1 data chunk with three stripes and every other field valid has
\* been rejected.
C14_Witness ==
    /\ pc = "done"
    /\ eb.kind = "chunk"
    /\ ChunkOthersValid(eb)
    /\ eb.type = APFS_BLOCK_GROUP_DATA + APFS_BLOCK_GROUP_RAID1
    /\ eb.num_stripes = 3
    /\ result = -EUCLEAN
    /\ diag = <<Msg("chunk_err", -1)>>

\* The reference count an inline reference list stands for: one for each
\* tree-block or shared-block reference, the count field of each
\* extent-data or shared-data reference.
RECURSIVE RefCountSum(_)
RefCountSum(irefs) ==
    IF irefs = <<>> THEN 0
    ELSE (CASE Head(irefs).type = APFS_TREE_BLOCK_REF_KEY -> 1
            [] Head(irefs).type = APFS_SHARED_BLOCK_REF_KEY -> 1
            [] Head(irefs).type = APFS_EXTENT_DATA_REF_KEY -> Head(irefs).count
            [] Head(irefs).type = APFS_SHARED_DATA_REF_KEY -> Head(irefs).count
            [] OTHER -> 0)
         + RefCountSum(Tail(irefs))

\* Every reference of the item is of one of the four types.
RefTypesKnown(it) ==
    \A k \in 1 .. Len(it.irefs) :
        it.irefs[k].type \in {APFS_TREE_BLOCK_REF_KEY, APFS_SHARED_BLOCK_REF_KEY,
                              APFS_EXTENT_DATA_REF_KEY, APFS_SHARED_DATA_REF_KEY}

\* The sum of the list is above the refs field, a u64.
SumExceedsRefs(it) == it.refs >= 0 /\ RefCountSum(it.irefs) > it.refs

\* Nothing but the reference count can be wrong with the item: its header
\* passes, it is exactly as long as its contents, and every reference is of
\* a known type with its bytenr or offset aligned.
ExtentOthersValid(it) ==
    /\ [key |-> it.key, flags |-> it.flags, skinny |-> it.skinny] \in ExtentHeads
    /\ it.generation \in 0 .. SuperGeneration + 1
    /\ it.level < APFS_MAX_LEVEL
    /\ it.size = ExactSize(it, it.irefs)
    /\ RefTypesKnown(it)
    /\ \A k \in 1 .. Len(it.irefs) :
        LET r == it.irefs[k]
        IN  /\ r.type \in {APFS_SHARED_BLOCK_REF_KEY, APFS_SHARED_DATA_REF_KEY}
                 => IS_ALIGNED(r.offset, SectorSize)
            /\ r.type = APFS_EXTENT_DATA_REF_KEY => IS_ALIGNED(r.dref_offset, SectorSize)

\* C15: check_extent_item returns -EUCLEAN for an extent item whose inline
\* references, of whatever mix of the four types, sum to more than the refs
\* field of its header; and when the sum is equal to or below refs and
\* nothing else is wrong with the item it returns 0.
C15_RefcountAccounting ==
    (pc = "done" /\ eb.kind = "extent" /\ RefTypesKnown(eb))
    => /\ SumExceedsRefs(eb) => result = -EUCLEAN
       /\ (ExtentOthersValid(eb) /\ ~SumExceedsRefs(eb)) => result = 0
       /\ ExtentOthersValid(eb) => (result = -EUCLEAN <=> SumExceedsRefs(eb))

\* An item with nothing else wrong, holding a block reference and a data
\* reference, whose sum is above refs, is rejected with one diagnostic.
C15_Witness ==
    /\ pc = "done"
    /\ eb.kind = "extent"
    /\ ExtentOthersValid(eb)
    /\ Len(eb.irefs) = 2
    /\ eb.irefs[1].type = APFS_TREE_BLOCK_REF_KEY
    /\ eb.irefs[2].type = APFS_SHARED_DATA_REF_KEY
    /\ eb.irefs[2].count = 3
    /\ eb.refs = 3
    /\ result = -EUCLEAN
    /\ Len(diag) = 1

\* What the header, the keys and the offset/size table of a leaf decide,
\* whatever the payloads: level 0, an empty leaf allowed for its owner, and
\* every slot in key order and tiling the data area.
StructAccepts(leaf) ==
    /\ leaf.level = 0
    /\ IF leaf.nritems = 0
       THEN leaf.reloc \/ leaf.owner \notin NeverEmpty \cup {0}
       ELSE /\ Len(leaf.items) = leaf.nritems
            /\ \A at \in 0 .. leaf.nritems - 1 : StructOK(leaf, at)

\* C16: the result of check_leaf in relaxed mode depends on the header, the
\* keys and the offset/size table only: no payload is read and the leaf is
\* accepted exactly when those pass, so leaves that differ in payload bytes
\* alone get the same result; and a leaf accepted in full mode passes them,
\* which is what relaxed mode accepts.
C16_RelaxedStructuralOnly ==
    (pc = "done" /\ eb.kind = "leaf")
    => /\ ~check_item_data
            => /\ accesses = {}
               /\ result \in {0, -EUCLEAN}
               /\ result = 0 <=> StructAccepts(eb)
       /\ (check_item_data /\ result = 0) => StructAccepts(eb)

\* A relaxed-mode walk that accepted a leaf holding an item the validator
\* of full mode rejects.
C16_Witness ==
    /\ pc = "done"
    /\ eb.kind = "leaf"
    /\ ~check_item_data
    /\ result = 0
    /\ eb.nritems = 2
    /\ \E at \in 0 .. eb.nritems - 1 : ~SlotOK(eb, at, TRUE)

\* C17: apfs_check_leaf_full, apfs_check_leaf_relaxed and apfs_check_node
\* return 0 for every block: when a call has returned, the result is 0, no
\* diagnostic was emitted and no item validator read anything.
C17_EntryPointsAcceptAll ==
    pc = "done" => (result = 0 /\ diag = <<>> /\ accesses = {})

\* A full-mode call that returned 0 for a leaf whose header level is not 0
\* and whose keys are out of order.
C17_Witness ==
    /\ pc = "done"
    /\ eb.kind = "leaf"
    /\ check_item_data
    /\ eb.level # 0
    /\ eb.nritems = 2
    /\ BadKeyOrder(eb, 1)
    /\ result = 0

\* Byte off of the block kept in the pages pg.
BlockByte(pg, off) == pg[off \div PAGE_SIZE][off % PAGE_SIZE]

\* Byte off of the block after size bytes at o were set to the
\* little-endian encoding of val in the block kept in pg.
ByteAfterSet(pg, o, size, val, off) ==
    IF off >= o /\ off < o + size
    THEN (val \div Pow(ByteRadix, off - o)) % ByteRadix
    ELSE BlockByte(pg, off)

\* C23: apfs_set_W and apfs_set_token_W at an in-bounds offset o change
\* the bytes [o, o + W/8) of the block to the little-endian encoding of
\* the value and leave every other byte of the pages as it was, whether
\* the range lies in one page or straddles the page boundary.
C23_SetFrame ==
    [][(lastop'.kind = "set" /\ nops' = nops + 1)
       => \A off \in 0 .. (NumPages * PAGE_SIZE - 1) :
            /\ BlockByte(pages', off)
                 = ByteAfterSet(pages, lastop'.off, lastop'.size, lastop'.val, off)
            /\ BlockByte(tpages', off)
                 = ByteAfterSet(tpages, lastop'.off, lastop'.size, lastop'.val, off)]_vars

\* A 32-bit value was set across the page boundary of a buffer that was
\* not zero-filled, after an earlier call: its bytes are in both pages and
\* the bytes on either side of it in the block still hold their values.
C23_Witness ==
    /\ nops = MaxOps
    /\ lastop.kind = "set"
    /\ lastop.size = 4
    /\ lastop.off = PAGE_SIZE - 2
    /\ \A i \in 0 .. 3 : /\ BlockByte(pages, lastop.off + i) = (i + 1) % ByteRadix
                         /\ BlockByte(tpages, lastop.off + i) = (i + 1) % ByteRadix
    /\ BlockByte(pages, lastop.off - 1) = ByteRadix - 1
    /\ BlockByte(pages, lastop.off + 4) = ByteRadix - 1
    /\ BlockByte(tpages, lastop.off + 4) = ByteRadix - 1

----------------------------------------------------------------------------
(* Buffer I/O properties.                                                  *)

\* C18: when apfs_buf_submit(bp, wait = true) has returned, no bio
\* submitted for the buffer is still in flight: the device has completed
\* each one and its apfs_buf_bio_end_io has been entered.
C18_ReturnAfterAllBios ==
    (submit # <<>> /\ submit.pc = "returned" /\ submit.wait)
    => \A i \in 1 .. Len(bios) : bios[i].pc # "in_flight"

\* The I/O of the call has finished: apfs_buf_ioapply is over and the
\* end_io of every bio has run to its end.
IoFinished ==
    /\ submit # <<>>
    /\ submit.pc \in {"wait", "return", "returned"}
    /\ \A i \in 1 .. Len(bios) : bios[i].pc = "done"

\* C19: after all I/O of one apfs_buf_submit call has finished, bp->error is
\* non-zero if a bio completed with an error status or apfs_buf_ioapply
\* built a bio without a page.
C19_ErrorsNotLost ==
    (IoFinished /\ (submit.no_pages \/ \E i \in 1 .. Len(bios) : bios[i].error # 0))
    => bp.error # 0

\* C20: during one apfs_buf_submit call complete(&bp->io_wait) is called at
\* most once.
C20_SignalledAtMostOnce ==
    Cardinality({i \in 1 .. Len(bios) : bios[i].completed}) <= 1

\* C21: apfs_buf_submit(bp, wait = true) eventually returns when every
\* submitted bio eventually completes, also when a chunk's bio gets no page
\* and when the buffer is empty.
C21_SubmitReturns ==
    (submit # <<>> /\ submit.wait) ~> (submit.pc = "returned")

\* C22: from the atomic_set of apfs_buf_submit on, bp->io_remaining is
\* never below 1.
C22_CallerCountHeld ==
    (submit # <<>> /\ submit.pc # "apfs_buf_submit") => bp.io_remaining >= 1

\* The failure branch of apfs_buf_ioapply and the end_io of a bio have both
\* decremented io_remaining, and it stands at 1.
C22_Witness ==
    /\ submit # <<>>
    /\ submit.no_pages
    /\ submit.pc = "wait"
    /\ Len(bios) = 1
    /\ bios[1].pc = "atomic_read"
    /\ bp.io_remaining = 1

\* The item of the one-item leaf that check_extent_data_item was called on.
FeItem == eb.items[1]

\* A regular or preallocated extent: a valid type other than inline.
FeRegular ==
    /\ FeItem.p.type < APFS_NR_FILE_EXTENT_TYPES
    /\ FeItem.p.type # APFS_FILE_EXTENT_INLINE

\* Fixed size, the five fields sector aligned, and the end of the extent
\* (key offset + num_bytes, wrapped to 64 bits) not below the key offset.
FeShapeValid ==
    /\ FeItem.size = W(SizeofFileExtentItem)
    /\ \A x \in {FeItem.p.ram_bytes, FeItem.p.disk_bytenr, FeItem.p.disk_num_bytes,
                 FeItem.p.offset, FeItem.p.num_bytes} : x % SectorSize = 0
    /\ ~U64Lt(FeItem.key.offset + FeItem.p.num_bytes, FeItem.key.offset)

\* C24: check_extent_data_item returns -EUCLEAN for a regular or
\* preallocated file extent unless the item has the fixed size of the file
\* extent structure, ram_bytes, disk_bytenr, disk_num_bytes, offset and
\* num_bytes are multiples of the sector size, and key offset + num_bytes
\* does not overflow 64 bits.
C24_RegularExtentShape ==
    (pc = "done" /\ FeRegular /\ ~FeShapeValid) => result = -EUCLEAN

\* A preallocated extent of the fixed size that is rejected only because
\* its offset field is not sector aligned.
C24_Witness ==
    /\ pc = "done"
    /\ FeItem.p.type = APFS_NR_FILE_EXTENT_TYPES - 1
    /\ FeItem.size = W(SizeofFileExtentItem)
    /\ FeItem.p.offset = 1
    /\ \A x \in {FeItem.p.ram_bytes, FeItem.p.disk_bytenr, FeItem.p.disk_num_bytes,
                 FeItem.p.num_bytes, FeItem.key.offset} : x = SectorSize
    /\ result = -EUCLEAN

\* The bytes one inline reference record of a known type takes: the
\* apfs_extent_inline_ref for the two block types, that and an
\* apfs_shared_data_ref for shared data, the type byte and an
\* apfs_extent_data_ref for extent data.
RefRecordSize(type) ==
    CASE type = APFS_TREE_BLOCK_REF_KEY -> 9
      [] type = APFS_SHARED_BLOCK_REF_KEY -> 9
      [] type = APFS_SHARED_DATA_REF_KEY -> 9 + 4
      [] type = APFS_EXTENT_DATA_REF_KEY -> 1 + 28
      [] OTHER -> 0

RefTypeKnown(type) ==
    type \in {APFS_TREE_BLOCK_REF_KEY, APFS_SHARED_BLOCK_REF_KEY,
              APFS_EXTENT_DATA_REF_KEY, APFS_SHARED_DATA_REF_KEY}

\* Where the first inline reference of the item starts: after the
\* apfs_extent_item and, for a tree block under an EXTENT_ITEM key, the
\* apfs_tree_block_info.
RefStart(it) ==
    24 + (IF HasFlag(it.flags, APFS_EXTENT_FLAG_TREE_BLOCK) /\ it.key.type = APFS_EXTENT_ITEM_KEY
          THEN 18 ELSE 0)

\* Where record n + 1 of the item starts (the end of record n).
RECURSIVE RefEnd(_, _)
RefEnd(it, n) ==
    IF n = 0 THEN RefStart(it)
    ELSE RefEnd(it, n - 1) + RefRecordSize(it.irefs[n].type)

\* Some prefix of the records, all of known types, ends at the item's end.
WalkEndsAtEnd(it) ==
    \E n \in 0 .. Len(it.irefs) :
        /\ \A k \in 1 .. n : RefTypeKnown(it.irefs[k].type)
        /\ RefEnd(it, n) = it.size

\* Record n starts inside the item after records of known types.
RefReached(it, n) ==
    /\ \A k \in 1 .. n - 1 : RefTypeKnown(it.irefs[k].type)
    /\ RefEnd(it, n - 1) < it.size

\* C25: check_extent_item returns -EUCLEAN unless the inline references,
\* walked from the end of the apfs_extent_item (and of the
\* apfs_tree_block_info of a tree block under an EXTENT_ITEM key), each
\* record advancing by the size of its type, end exactly at the end of the
\* item: a record that overruns the item, a record of an unknown type and
\* bytes after the last record are each rejected.
C25_InlineRefsFillItem ==
    (pc = "done" /\ eb.kind = "extent")
    => /\ ~WalkEndsAtEnd(eb) => result = -EUCLEAN
       /\ \A n \in 1 .. Len(eb.irefs) :
            RefReached(eb, n)
            => /\ RefEnd(eb, n) > eb.size => result = -EUCLEAN
               /\ ~RefTypeKnown(eb.irefs[n].type) => result = -EUCLEAN
       /\ (RefTypesKnown(eb) /\ RefEnd(eb, Len(eb.irefs)) < eb.size) => result = -EUCLEAN

\* A data extent with nothing else wrong whose second record, an extent
\* data reference, overruns the item by one byte.
C25_Witness ==
    /\ pc = "done"
    /\ eb.kind = "extent"
    /\ eb.flags = APFS_EXTENT_FLAG_DATA
    /\ Len(eb.irefs) = 2
    /\ eb.irefs[1].type = APFS_SHARED_DATA_REF_KEY
    /\ eb.irefs[2].type = APFS_EXTENT_DATA_REF_KEY
    /\ IS_ALIGNED(eb.irefs[1].offset, SectorSize)
    /\ IS_ALIGNED(eb.irefs[2].dref_offset, SectorSize)
    /\ eb.size = RefEnd(eb, 2) - 1
    /\ eb.refs = 2 * MaxRefs + 1
    /\ result = -EUCLEAN

\* The objectid is in [FIRST_FREE_OBJECTID, LAST_FREE_OBJECTID], as u64
\* values, or is the root tree directory or the free-ino objectid.
InodeObjectidAllowed(k) ==
    \/ ~U64Lt(k.objectid, APFS_FIRST_FREE_OBJECTID) /\ ~U64Lt(APFS_LAST_FREE_OBJECTID, k.objectid)
    \/ k.objectid = APFS_ROOT_TREE_DIR_OBJECTID
    \/ k.objectid = APFS_FREE_INO_OBJECTID

\* The statement for every caller: success only for an allowed objectid
\* with offset 0.
C26_AllCallers ==
    (pc = "done" /\ result = 0)
    => (InodeObjectidAllowed(eb.checked) /\ eb.checked.offset = 0)

\* C26: check_inode_key, on the key of an inode item and on the location
\* key of an entry of a DIR_ITEM or DIR_INDEX item, returns 0 only if the
\* objectid of the checked key is in [FIRST_FREE_OBJECTID,
\* LAST_FREE_OBJECTID] or is the root tree directory or the free-ino
\* objectid, and its offset is 0; on the location key of an entry of an
\* XATTR_ITEM item it returns 0 exactly when objectid, type and offset of
\* the location are all 0.
C26_InodeKeyShape ==
    pc = "done"
    => IF eb.items[1].key.type = APFS_XATTR_ITEM_KEY
       THEN result = 0 <=> eb.checked = ZeroKey
       ELSE result = 0 => (InodeObjectidAllowed(eb.checked) /\ eb.checked.offset = 0)

\* The all-zero location key of an xattr entry is accepted, with an
\* objectid outside the free range.
C26_Witness ==
    /\ pc = "done"
    /\ eb.items[1].key.type = APFS_XATTR_ITEM_KEY
    /\ eb.checked = ZeroKey
    /\ ~InodeObjectidAllowed(eb.checked)
    /\ result = 0

\* The inode item check_inode_item was called on.
InodeChecked == eb.items[1].p

\* The file type field of a mode, as a number 0 .. 15.
ModeTypeNibble(mode) == (mode \div 4096) % 16

\* FIFO, CHR, DIR, BLK, REG, LNK and SOCK: 01, 02, 04, 06, 010, 012 and 014
\* in the file type field.
ModeTypeLegal(mode) == ModeTypeNibble(mode) \in {1, 2, 4, 6, 8, 10, 12}

\* No bit outside S_IFMT | S_ISUID | S_ISGID | S_ISVTX | 0777, which are the
\* low sixteen bits.
ModeInMask(mode) == mode < 65536

\* Nothing but the mode can be wrong with the item.
InodeOthersValid ==
    /\ InodeChecked.generation <= SuperGeneration + 1
    /\ InodeChecked.flags < InodeFlagLimit
    /\ InodeChecked.nlink <= 1

\* C27: check_inode_item returns -EUCLEAN for a mode with a bit outside
\* S_IFMT | S_ISUID | S_ISGID | S_ISVTX | 0777 and for a mode whose file
\* type field is zero or any value other than the seven file types FIFO,
\* CHR, DIR, BLK, REG, LNK and SOCK; a mode inside the mask whose file type
\* field is one of the seven is accepted.
C27_ModeChecked ==
    (pc = "done" /\ eb.items[1].key.type = APFS_INODE_ITEM_KEY)
    => /\ ~ModeInMask(InodeChecked.mode) => result = -EUCLEAN
       /\ ~ModeTypeLegal(InodeChecked.mode) => result = -EUCLEAN
       /\ InodeOthersValid
            => (result = 0 <=> (ModeInMask(InodeChecked.mode)
                                /\ ModeTypeLegal(InodeChecked.mode)))

\* A socket with all twelve low bits set is accepted; its file type field
\* has two bits set.
C27_Witness ==
    /\ pc = "done"
    /\ InodeChecked.kind = "inode"
    /\ InodeChecked.mode = 49152 + 4095
    /\ InodeOthersValid
    /\ result = 0

\* The three type flags of a chunk type, each tested on its own bit.
ChunkIsData(c) == HasFlag(c.type, 1)
ChunkIsSystem(c) == HasFlag(c.type, 2)
ChunkIsMetadata(c) == HasFlag(c.type, 4)

\* Every field of a chunk other than its type flags is valid: no profile
\* bit, one stripe, and an aligned, non-empty range that does not wrap.
ChunkFieldsValid(c) ==
    /\ IS_ALIGNED(c.logical, SectorSize)
    /\ c.sector_size = SectorSize
    /\ c.length # 0
    /\ IS_ALIGNED(c.length, SectorSize)
    /\ ~U64Carry(c.logical, c.length)
    /\ c.stripe_len = APFS_STRIPE_LEN
    /\ c.type < APFS_BLOCK_GROUP_RAID0
    /\ c.num_stripes = 1

\* C28: apfs_check_chunk_valid returns -EUCLEAN for a chunk whose type has
\* none of the DATA, SYSTEM and METADATA bits, or has SYSTEM together with
\* DATA or METADATA, or has DATA together with METADATA while the
\* MIXED_GROUPS feature is off; a DATA | METADATA chunk whose other fields
\* are valid is accepted when the feature is on.
C28_ChunkTypeBits ==
    (pc = "done" /\ eb.kind = "chunk")
    => /\ (~ChunkIsData(eb) /\ ~ChunkIsSystem(eb) /\ ~ChunkIsMetadata(eb)) => result = -EUCLEAN
       /\ (ChunkIsSystem(eb) /\ (ChunkIsData(eb) \/ ChunkIsMetadata(eb))) => result = -EUCLEAN
       /\ (ChunkIsData(eb) /\ ChunkIsMetadata(eb) /\ ~eb.mixed) => result = -EUCLEAN
       /\ (/\ ChunkIsData(eb)
           /\ ChunkIsMetadata(eb)
           /\ ~ChunkIsSystem(eb)
           /\ eb.mixed
           /\ ChunkFieldsValid(eb)) => result = 0

\* A DATA | METADATA chunk with valid fields is accepted with the feature
\* on.
C28_Witness ==
    /\ pc = "done"
    /\ eb.kind = "chunk"
    /\ eb.type = APFS_BLOCK_GROUP_DATA + APFS_BLOCK_GROUP_METADATA
    /\ eb.mixed
    /\ ChunkFieldsValid(eb)
    /\ result = 0

\* The same chunk is rejected with the feature off.
C28_WitnessRejected ==
    /\ pc = "done"
    /\ eb.kind = "chunk"
    /\ eb.type = APFS_BLOCK_GROUP_DATA + APFS_BLOCK_GROUP_METADATA
    /\ ~eb.mixed
    /\ ChunkFieldsValid(eb)
    /\ result = -EUCLEAN

\* The key of the item the validator was called on.
ValidatedKey == eb.items[slot + 1].key

\* The owner is the fs tree or a subvolume: id 5, or 256 and above as a
\* signed 64-bit number.
OwnerIsFsTree == eb.owner = 5 \/ eb.owner >= 256

\* What the validator returns for the same item when the key before it has
\* the item's objectid.
ResultWithSameIno ==
    check_leaf_item(eb, ValidatedKey, slot,
                    Key(ValidatedKey.objectid, prev_key.type, prev_key.offset)).ret

\* C29: for an item of key type XATTR_ITEM, INODE_REF, DIR_INDEX, DIR_ITEM
\* or EXTENT_DATA at a slot above 0 of a leaf owned by the fs tree or a
\* subvolume, the validator returns -EUCLEAN when the objectid of the key
\* in the slot before differs from the item's; at slot 0 and in leaves of
\* other owners the objectid of the previous key changes nothing.
C29_PrevInoContinuity ==
    (/\ pc = "done"
     /\ eb.kind = "leaf"
     /\ ValidatedKey.type \in {APFS_XATTR_ITEM_KEY, APFS_INODE_REF_KEY, APFS_DIR_INDEX_KEY,
                               APFS_DIR_ITEM_KEY, APFS_EXTENT_DATA_KEY})
    => /\ (slot > 0 /\ OwnerIsFsTree /\ prev_key.objectid # ValidatedKey.objectid)
            => result = -EUCLEAN
       /\ (slot = 0 \/ ~OwnerIsFsTree) => result = ResultWithSameIno

\* A directory index item its validator accepts after its own inode item
\* is rejected in a subvolume leaf after the inode item of another inode.
C29_Witness ==
    /\ pc = "done"
    /\ slot = 1
    /\ eb.owner = APFS_FIRST_FREE_OBJECTID
    /\ ValidatedKey.type = APFS_DIR_INDEX_KEY
    /\ prev_key.objectid # ValidatedKey.objectid
    /\ ResultWithSameIno = 0
    /\ result = -EUCLEAN

\* The same item in a leaf of the extent tree is accepted.
C29_WitnessOtherTree ==
    /\ pc = "done"
    /\ slot = 1
    /\ eb.owner = APFS_EXTENT_TREE_OBJECTID
    /\ ValidatedKey.type = APFS_DIR_INDEX_KEY
    /\ prev_key.objectid # ValidatedKey.objectid
    /\ result = 0

(***************************************************************************)
(* Defrag properties.                                                      *)
(***************************************************************************)

\* C30: when apfs_defrag_leaves returns a value other than -EAGAIN,
\* root->defrag_progress is all zero; when it returns -EAGAIN,
\* defrag_progress is the key apfs_find_next_key found after the
\* reallocated node.
C30_ProgressOnReturn ==
    (defrag # <<>> /\ defrag.pc = "returned")
    => IF defrag.ret # -EAGAIN
       THEN root.defrag_progress = ZeroKey
       ELSE /\ defrag.from = "apfs_find_next_key"
            /\ root.defrag_progress = defrag.key

\* A call that resumes from a recorded key and fails to allocate its path
\* returns -ENOMEM with the key still recorded.
C30_StaleProgress ==
    /\ defrag # <<>>
    /\ defrag.pc = "returned"
    /\ defrag.ret = -ENOMEM
    /\ root.defrag_progress # ZeroKey

====
